---------------------------- MODULE Spec2Model ----------------------------
(***************************************************************************)
(* Music-Downloader-Bot: the result ranker (find_best_match) and the text  *)
(* search worker (process_search_query) of src/main.py.                    *)
(*                                                                         *)
(* Strings are sequences of one-character strings, so that lower(),        *)
(* split() and the substring test `in` are computed and not assumed.       *)
(* Scores are Python floats: IEEE-754 binary64 values, kept exactly as an  *)
(* integer number of units of 2^-56 in two limbs, with every operation     *)
(* rounded to 53 significant bits, ties to even.                           *)
(***************************************************************************)
EXTENDS Integers, Sequences, FiniteSets, TLC

(***************************************************************************)
(* Bounds of the model.                                                    *)
(***************************************************************************)
\* longest 'entries' list a search result carries
MaxEntries == 6

\* longest 'entries' list a ytsearch5 of the worker returns
MaxSearchEntries == 2

\* longest 'entries' list of the repeated calls of the ranker
MaxPureEntries == 2

\* largest update id the polling loop records
MaxUpdateId == 1

\* most query parameters a link carries
MaxParams == 2

\* most updates the users send in one run of the polling loop
MaxUpdates == 2

\* most entries of a playlist
MaxTracks == 2

\* most titles an extractor finds in a playlist
MaxPlaylist == 21

(***************************************************************************)
(* State                                                                   *)
(***************************************************************************)
VARIABLES
    user_processes,     \* main.py:28, chat id -> flag, a dict
    last_update_id,     \* main.py:27
    query,              \* find_best_match: its arguments and its frame
    search_results,
    fbm,
    prev,               \* an earlier call of find_best_match and its result
    psq,                \* process_search_query: its arguments and its frame
    files,              \* the audio files in the working directory
    searched,           \* the extract_info calls made, in order
    downloads,          \* the targets handed to ydl.download, in order
    sent,               \* the send_message calls made, in order
    link,               \* the link a user sent
    cyu,                \* clean_youtube_url: its successive results
    ipl,                \* is_playlist: its result
    gtt,                \* get_track_title_from_url: its frame
    dm,                 \* download_music: its frame
    inbox,              \* the updates the server holds, in id order
    loop,               \* main: the polling loop and the batch it handles
    threads,            \* the worker threads main has started
    direct,             \* direct_bot.py, main: its loop and the playlist it
                        \* downloads
    sd,                 \* send_document: its frame
    jobs,               \* the requests that share the working directory
    pp                  \* process_playlist: its arguments and its frame

vars == <<user_processes, last_update_id, query, search_results, fbm, prev,
          psq, files, searched, downloads, sent, link, cyu, ipl,
          gtt, dm, inbox, loop, threads, direct, sd, jobs, pp>>

globals == <<user_processes, last_update_id>>

ranker == <<query, search_results, fbm, prev>>

worker == <<psq, files, searched, downloads, sent>>

urls == <<link, cyu, ipl>>

titles == <<gtt, dm>>

dispatch == <<inbox, loop, threads>>

uploads == <<sd, jobs, pp>>

\* everything outside the search worker and the ranker
frontend == <<urls, titles, dispatch, direct, uploads>>

(***************************************************************************)
(* str: lower(), split(), `in`                                             *)
(***************************************************************************)


LowerChar(c) ==
    CASE c = "A" -> "a" [] c = "B" -> "b" [] c = "C" -> "c" [] c = "D" -> "d"
      [] c = "E" -> "e" [] c = "F" -> "f" [] c = "G" -> "g" [] c = "H" -> "h"
      [] c = "I" -> "i" [] c = "J" -> "j" [] c = "K" -> "k" [] c = "L" -> "l"
      [] c = "M" -> "m" [] c = "N" -> "n" [] c = "O" -> "o" [] c = "P" -> "p"
      [] c = "Q" -> "q" [] c = "R" -> "r" [] c = "S" -> "s" [] c = "T" -> "t"
      [] c = "U" -> "u" [] c = "V" -> "v" [] c = "W" -> "w" [] c = "X" -> "x"
      [] c = "Y" -> "y" [] c = "Z" -> "z" [] OTHER -> c

\* str.lower()
Lower(s) == [i \in 1..Len(s) |-> LowerChar(s[i])]

IsSpace(c) == c \in {" ", "\t", "\n", "\r"}

\* set(str.split()): the maximal runs of non-whitespace characters
WordSet(s) ==
    { SubSeq(s, i, j) : <<i, j>> \in
        { p \in (1..Len(s)) \X (1..Len(s)) :
            /\ p[1] <= p[2]
            /\ \A k \in p[1]..p[2] : ~IsSpace(s[k])
            /\ (p[1] = 1 \/ IsSpace(s[p[1] - 1]))
            /\ (p[2] = Len(s) \/ IsSpace(s[p[2] + 1])) } }

\* sub in s
Contains(sub, s) ==
    \E i \in 0..(Len(s) - Len(sub)) : SubSeq(s, i + 1, i + Len(sub)) = sub

(***************************************************************************)
(* float: a value is [hi, lo], standing for (hi * 2^28 + lo) * 2^-56 with  *)
(* 0 <= lo < 2^28 and hi of either sign.  Every score of the ranker has a  *)
(* magnitude below 2 and is a multiple of 2^-56, so the sum of two values  *)
(* is exact in this form before it is rounded.                             *)
(***************************************************************************)
Limb == 2^28

FZero == [hi |-> 0, lo |-> 0]

\* the binary64 values of the literals 0.3, 0.1 and 0.2
F03 == [hi |-> 80530636, lo |-> 214748364]
F01 == [hi |-> 26843545, lo |-> 161061274]
F02 == [hi |-> 53687091, lo |-> 53687092]

FNeg(a) ==
    IF a.lo = 0 THEN [hi |-> 0 - a.hi, lo |-> 0]
                ELSE [hi |-> 0 - a.hi - 1, lo |-> Limb - a.lo]

FIsNeg(a) == a.hi < 0

\* a > b
FGt(a, b) == a.hi > b.hi \/ (a.hi = b.hi /\ a.lo > b.lo)

RECURSIVE BitLen(_)
BitLen(n) == IF n = 0 THEN 0 ELSE 1 + BitLen(n \div 2)

\* round a magnitude m (hi >= 0) whose bits below the units are `sticky`
\* (0: none, 1: less than half a unit, 2: half a unit, 3: more) to 53
\* significant bits, ties to even
RoundMag(m, sticky) ==
    LET d    == BitLen(m.hi) - 25
        g    == 2^d
        r    == m.lo % g
        base == m.lo - r
        odd  == (m.lo \div g) % 2 = 1
        up   == IF d <= 0
                THEN sticky = 3 \/ (sticky = 2 /\ m.lo % 2 = 1)
                ELSE \/ 2 * r > g
                     \/ 2 * r = g /\ (sticky > 0 \/ odd)
        lo2  == IF d <= 0 THEN (IF up THEN m.lo + 1 ELSE m.lo)
                          ELSE (IF up THEN base + g ELSE base)
    IN  IF lo2 = Limb THEN [hi |-> m.hi + 1, lo |-> 0]
                      ELSE [hi |-> m.hi, lo |-> lo2]

FRound(a) == IF FIsNeg(a) THEN FNeg(RoundMag(FNeg(a), 0)) ELSE RoundMag(a, 0)

\* a + b
FAdd(a, b) ==
    LET s == a.lo + b.lo
    IN  FRound([hi |-> a.hi + b.hi + (s \div Limb), lo |-> s % Limb])

\* a - b
FSub(a, b) == FAdd(a, FNeg(b))

\* int / int with 0 <= o <= n, n >= 1: Python's true division, correctly rounded
FDiv(o, n) ==
    LET t1  == o * Limb
        qh  == t1 \div n
        t2  == (t1 % n) * Limb
        ql  == t2 \div n
        rem == t2 % n
        st  == IF rem = 0 THEN 0
               ELSE IF 2 * rem < n THEN 1
               ELSE IF 2 * rem = n THEN 2 ELSE 3
    IN  RoundMag([hi |-> qh, lo |-> ql], st)

(***************************************************************************)
(* Python values.  None and a dict are records told apart by `tag`; a      *)
(* missing or None string field is the empty string.                       *)
(***************************************************************************)
NoneV == [tag |-> "None"]

NoStr == ""

\* the None among the entries of a list
NoEntry == "None"

\* a search result entry: the fields find_best_match and its caller read
Entry(title, uploader, url, webpage_url) ==
    [title |-> title, uploader |-> uploader,
     url |-> url, webpage_url |-> webpage_url]

\* what extract_info returns: None, or a dict that has an 'entries' list or
\* not, and other keys or not
ResultDict(has_entries, other_keys, entries) ==
    [tag |-> "dict", has_entries |-> has_entries, other_keys |-> other_keys,
     entries |-> entries]

\* a function's outcome: a returned value or a raised exception
Return(v) == [kind |-> "return", value |-> v, exc |-> NoStr]
Raise(e) == [kind |-> "raise", value |-> NoEntry, exc |-> e]
NoResult == [kind |-> "none", value |-> NoEntry, exc |-> NoStr]

(***************************************************************************)
(* The marker vocabulary of find_best_match.                               *)
(***************************************************************************)
\* "official"
SOfficial ==
    <<"o","f","f","i","c","i","a","l">>
\* "audio"
SAudio ==
    <<"a","u","d","i","o">>
\* "music"
SMusic ==
    <<"m","u","s","i","c">>
\* "live"
SLive ==
    <<"l","i","v","e">>
\* "remix"
SRemix ==
    <<"r","e","m","i","x">>

(***************************************************************************)
(* The inputs of the model: the queries and the search result entries the  *)
(* ranker is run on.                                                       *)
(***************************************************************************)
\* "Bohemian Rhapsody Queen"
QBohemian ==
    <<"B","o","h","e","m","i","a","n"," ","R","h","a","p","s","o","d",
      "y"," ","Q","u","e","e","n">>
\* "one love"
QOneLove ==
    <<"o","n","e"," ","l","o","v","e">>
\* "Queen live"
QQueenLive ==
    <<"Q","u","e","e","n"," ","l","i","v","e">>
\* "Queen - Bohemian Rhapsody (Official Video)"
TitleOfficialVideo ==
    <<"Q","u","e","e","n"," ","-"," ","B","o","h","e","m","i","a","n",
      " ","R","h","a","p","s","o","d","y"," ","(","O","f","f","i","c",
      "i","a","l"," ","V","i","d","e","o",")">>
\* "Queen"
UpQueen ==
    <<"Q","u","e","e","n">>
\* "Bohemian Rhapsody (Live)"
TitleLive ==
    <<"B","o","h","e","m","i","a","n"," ","R","h","a","p","s","o","d",
      "y"," ","(","L","i","v","e",")">>
\* "Coverband"
UpCoverband ==
    <<"C","o","v","e","r","b","a","n","d">>
\* "Lovely Official Remix"
TitleRemix ==
    <<"L","o","v","e","l","y"," ","O","f","f","i","c","i","a","l"," ",
      "R","e","m","i","x">>
\* "Lovely Live Music"
TitleLiveMusic ==
    <<"L","o","v","e","l","y"," ","L","i","v","e"," ","M","u","s","i",
      "c">>
\* "Queen Live Zone"
TitleLiveZone ==
    <<"Q","u","e","e","n"," ","L","i","v","e"," ","Z","o","n","e">>

Queries == {QBohemian, QOneLove, QQueenLive}

\* An entry of a list is held by its identifier; EntryData gives the dict.
Candidates == {"official", "live", "remix", "livemusic", "zone"}

EntryData ==
    [id \in Candidates |->
        CASE id = "official" -> Entry(TitleOfficialVideo, UpQueen, "yt:official", NoStr)
          [] id = "live" -> Entry(TitleLive, UpCoverband, NoStr, "yt:live")
          [] id = "remix" -> Entry(TitleRemix, <<>>, "yt:remix", NoStr)
          [] id = "livemusic" -> Entry(TitleLiveMusic, <<>>, "yt:livemusic", "yt:livemusic/page")
          [] id = "zone" -> Entry(TitleLiveZone, <<>>, NoStr, NoStr)]

\* an 'entries' list: entries and None, at most MaxEntries long
EntryLists == UNION { [1..n -> Candidates \cup {NoEntry}] : n \in 0..MaxEntries }

SearchResults ==
    {NoneV, ResultDict(FALSE, FALSE, <<>>), ResultDict(FALSE, TRUE, <<>>)}
        \cup { ResultDict(TRUE, TRUE, l) : l \in EntryLists }

(***************************************************************************)
(* find_best_match                                                         *)
(***************************************************************************)
\* search_results['entries'][:5]
TopN == 5

\* MatchScore with the substring bonus given to words of 3 characters too
MatchScoreShortWords(q, entry) ==
    LET query_lower    == Lower(q)
        query_words    == WordSet(query_lower)
        title          == Lower(entry.title)
        uploader       == Lower(entry.uploader)
        title_words    == WordSet(title)
        uploader_words == WordSet(uploader)
        all_words      == title_words \cup uploader_words
        overlap        == Cardinality(query_words \cap all_words)
        s0 == IF query_words # {} THEN FDiv(overlap, Cardinality(query_words))
                                  ELSE FZero
        s1 == IF \E word \in query_words : Len(word) >= 3 /\ Contains(word, title)
              THEN FAdd(s0, F03) ELSE s0
        s2 == IF \E term \in {SOfficial, SAudio, SMusic} : Contains(term, title)
              THEN FAdd(s1, F01) ELSE s1
        s3 == IF ~Contains(SLive, query_lower) /\ Contains(SLive, title)
              THEN FSub(s2, F02) ELSE s2
        s4 == IF ~Contains(SRemix, query_lower) /\ Contains(SRemix, title)
              THEN FSub(s3, F01) ELSE s3
    IN  s4

\* the score of one entry, lines 476-477 and 486-510
MatchScore(q, entry) ==
    LET query_lower    == Lower(q)
        query_words    == WordSet(query_lower)
        title          == Lower(entry.title)
        uploader       == Lower(entry.uploader)
        title_words    == WordSet(title)
        uploader_words == WordSet(uploader)
        all_words      == title_words \cup uploader_words
        overlap        == Cardinality(query_words \cap all_words)
        s0 == IF query_words # {} THEN FDiv(overlap, Cardinality(query_words))
                                  ELSE FZero
        s1 == IF \E word \in query_words : Len(word) > 3 /\ Contains(word, title)
              THEN FAdd(s0, F03) ELSE s0
        s2 == IF \E term \in {SOfficial, SAudio, SMusic} : Contains(term, title)
              THEN FAdd(s1, F01) ELSE s1
        s3 == IF ~Contains(SLive, query_lower) /\ Contains(SLive, title)
              THEN FSub(s2, F02) ELSE s2
        s4 == IF ~Contains(SRemix, query_lower) /\ Contains(SRemix, title)
              THEN FSub(s3, F01) ELSE s3
    IN  s4

\* MatchScore over the inputs of the model, evaluated once
ScoreTable == [q \in Queries, e \in Candidates |-> MatchScore(q, EntryData[e])]

Score(q, entry) == ScoreTable[q, entry]

\* the frame of a call: where it is and its locals
IdleFrame ==
    [pc |-> "idle", idx |-> 0, best_match |-> NoEntry, best_score |-> FZero,
     score |-> FZero, result |-> NoResult]

\* FbmCall with best_match and best_score kept at module level and not
\* reset: the loop starts from what the call before left in them
FbmCallKeepsBest(q, sr) ==
    IF sr = NoneV \/ (~sr.has_entries /\ ~sr.other_keys) \/ ~sr.has_entries
    THEN [fbm EXCEPT !.pc = "done", !.result = Return(NoEntry)]
    ELSE [fbm EXCEPT !.pc = "loop", !.idx = 1]

\* lines 473-480: the guard and the locals' initial values
FbmCall(q, sr) ==
    IF sr = NoneV \/ (~sr.has_entries /\ ~sr.other_keys) \/ ~sr.has_entries
    THEN [IdleFrame EXCEPT !.pc = "done", !.result = Return(NoEntry)]
    ELSE [IdleFrame EXCEPT !.pc = "loop", !.idx = 1]

\* the loop of line 482 has another entry to look at
FbmMore(sr, f) == f.idx <= TopN /\ f.idx <= Len(sr.entries)

\* FbmIter with `score >= best_score`: a later entry wins a tie
FbmIterLastWins(q, sr, f) ==
    LET entry == sr.entries[f.idx]
        score == Score(q, entry)
    IN  IF entry = NoEntry
        THEN [f EXCEPT !.idx = @ + 1]
        ELSE IF ~FGt(f.best_score, score)
             THEN [f EXCEPT !.idx = @ + 1, !.score = score,
                            !.best_score = score, !.best_match = entry]
             ELSE [f EXCEPT !.idx = @ + 1, !.score = score]

\* FbmIter without the comparison: every scored entry replaces the best
FbmIterKeepLast(q, sr, f) ==
    LET entry == sr.entries[f.idx]
        score == Score(q, entry)
    IN  IF entry = NoEntry
        THEN [f EXCEPT !.idx = @ + 1]
        ELSE [f EXCEPT !.idx = @ + 1, !.score = score,
                       !.best_score = score, !.best_match = entry]

\* lines 482-514: one iteration of the loop
FbmIter(q, sr, f) ==
    LET entry == sr.entries[f.idx]
        score == Score(q, entry)
    IN  IF entry = NoEntry
        THEN [f EXCEPT !.idx = @ + 1]
        ELSE IF FGt(score, f.best_score)
             THEN [f EXCEPT !.idx = @ + 1, !.score = score,
                            !.best_score = score, !.best_match = entry]
             ELSE [f EXCEPT !.idx = @ + 1, !.score = score]

\* FbmReturn without the fallback to the first entry
FbmReturnNoFallback(sr, f) ==
    [f EXCEPT !.pc = "done", !.result = Return(f.best_match)]

\* FbmReturn with `best_score >= 0.3`
FbmReturnAtLeast(sr, f) ==
    [f EXCEPT !.pc = "done",
              !.result = IF ~FGt(F03, f.best_score) THEN Return(f.best_match)
                         ELSE IF Len(sr.entries) = 0 THEN Raise("IndexError")
                         ELSE Return(sr.entries[1])]

\* line 516
FbmReturn(sr, f) ==
    [f EXCEPT !.pc = "done",
              !.result = IF FGt(f.best_score, F03) THEN Return(f.best_match)
                         ELSE IF Len(sr.entries) = 0 THEN Raise("IndexError")
                         ELSE Return(sr.entries[1])]

RECURSIVE FbmRun(_, _, _)
FbmRun(q, sr, f) ==
    IF f.pc = "done" THEN f
    ELSE IF FbmMore(sr, f) THEN FbmRun(q, sr, FbmIter(q, sr, f))
    ELSE FbmRun(q, sr, FbmReturn(sr, f))

\* the outcome of find_best_match(query, search_results)
find_best_match(q, sr) == FbmRun(q, sr, FbmCall(q, sr)).result

Chats == {"c1", "c2"}

\* user_processes = {}
EmptyDict == [c \in {} |-> FALSE]

\* an assignment that gives every key the value
DictSetEvery(dict, c, v) ==
    [x \in DOMAIN dict \cup {c} |-> v]

\* user_processes[c] = v
DictSet(dict, c, v) ==
    [x \in DOMAIN dict \cup {c} |-> IF x = c THEN v ELSE dict[x]]

(***************************************************************************)
(* process_search_query: the pure parts                                    *)
(***************************************************************************)
\* " official audio"
SOfficialAudioSuffix ==
    <<" ","o","f","f","i","c","i","a","l"," ","a","u","d","i","o">>
\* " music"
SMusicSuffix ==
    <<" ","m","u","s","i","c">>

\* lines 525-529
SearchQueries(q) == <<q, q \o SOfficialAudioSuffix, q \o SMusicSuffix>>

\* a download or search target: a URL, or f"ytsearch{n}:{term}"
NoUrl == [kind |-> "None"]
Url(u) == [kind |-> "url", text |-> u]
YtSearch(n, term) == [kind |-> "ytsearch", n |-> n, term |-> term]

\* the files a download may leave in the working directory
FileNames == {"a.mp3", "b.mp3"}

\* what ydl.extract_info may do: raise, or return None or a dict
ExtractOutcomes ==
    {Raise("DownloadError"), Return(NoneV), Return(ResultDict(FALSE, TRUE, <<>>))}
        \cup { Return(ResultDict(TRUE, TRUE, l)) :
                l \in UNION { [1..n -> Candidates \cup {NoEntry}] :
                                n \in 0..MaxSearchEntries } }

\* what search_youtube_api may return: None or a watch URL
ApiOutcomes == {NoStr, "https://www.youtube.com/watch?v=api"}

\* lines 544-546: the result of the search handed to find_best_match
BestOf(q, outcome) ==
    IF outcome.kind = "raise" THEN outcome
    ELSE find_best_match(q, outcome.value)

\* line 547: `if best_match:` is reached and true
Selected(r) == r.kind = "return" /\ r.value # NoEntry

\* line 548: best_match.get('url') or best_match.get('webpage_url')
DownloadUrlOf(e) ==
    IF EntryData[e].url # NoStr THEN Url(EntryData[e].url)
    ELSE IF EntryData[e].webpage_url # NoStr THEN Url(EntryData[e].webpage_url)
    ELSE NoUrl

IdleWorker ==
    [pc |-> "idle", chat_id |-> "c1", query |-> <<>>, k |-> 0,
     api_url |-> NoStr, best_match |-> NoEntry, download_url |-> NoUrl,
     file_path |-> NoStr]

\* PsqSearchStep without the break of line 550
PsqSearchStepNoBreak(w, r) ==
    LET w2 == IF Selected(r)
              THEN [w EXCEPT !.best_match = r.value,
                             !.download_url = DownloadUrlOf(r.value)]
              ELSE w
    IN  IF w.k < Len(SearchQueries(w.query))
        THEN [w2 EXCEPT !.k = @ + 1]
        ELSE [w2 EXCEPT !.pc = "after_search"]

\* PsqSearchStep without the `except Exception: continue` of lines 551-553:
\* a search that selects nothing ends the worker
PsqSearchStepAbort(w, r) ==
    IF Selected(r)
    THEN [w EXCEPT !.best_match = r.value,
                   !.download_url = DownloadUrlOf(r.value),
                   !.pc = "after_search"]
    ELSE [w EXCEPT !.pc = "finally"]

\* lines 547-553: after the search of term k gave r, break or go on
PsqSearchStep(w, r) ==
    IF Selected(r)
    THEN [w EXCEPT !.best_match = r.value,
                   !.download_url = DownloadUrlOf(r.value),
                   !.pc = "after_search"]
    ELSE IF w.k < Len(SearchQueries(w.query))
         THEN [w EXCEPT !.k = @ + 1]
         ELSE [w EXCEPT !.pc = "after_search"]

\* PsqAfterSearchStep giving up when no search selected anything: no
\* download is tried before the files are looked for
PsqAfterSearchStepGiveUp(w) ==
    IF w.download_url = NoUrl
    THEN [w EXCEPT !.pc = "glob"]
    ELSE [w EXCEPT !.pc = "download"]

\* lines 555-559: the final fallback
PsqAfterSearchStep(w) ==
    IF w.download_url = NoUrl
    THEN [w EXCEPT !.download_url = YtSearch(1, w.query), !.pc = "download"]
    ELSE [w EXCEPT !.pc = "download"]

\* line 577: what is handed to ydl.download
DownloadTarget(w) == YtSearch(1, w.query)

MsgFound == "Found it! Sending your music now..."
MsgEnjoy == "Enjoy the music!"
MsgNotSent == "Couldn't send the file. Please try again."
MsgNotFound == "Couldn't find that song. Try being more specific."
MsgDownloadFailed == "Download failed. Please try a different search term."

\* send_message(chat_id, text)
Send(log, c, text) == Append(log, [chat |-> c, text |-> text])

(***************************************************************************)
(* str: split(sep)[0], split(sep)[1]                                       *)
(***************************************************************************)
\* the first index at or after `from` where sub occurs in s, 0 when none
Find(sub, s, from) ==
    LET hits == { i \in from..(Len(s) - Len(sub) + 1) :
                    SubSeq(s, i, i + Len(sub) - 1) = sub }
    IN IF hits = {} THEN 0 ELSE CHOOSE i \in hits : \A j \in hits : i <= j

\* s.split(sep)[0]: the text before the first sep, all of s when there is none
SplitFirst(s, sep) ==
    LET i == Find(sep, s, 1)
    IN IF i = 0 THEN s ELSE SubSeq(s, 1, i - 1)

\* s.split(sep)[1] for an s that holds sep: the text between the first sep
\* and the next one
SplitSecond(s, sep) ==
    LET i == Find(sep, s, 1)
    IN SplitFirst(SubSeq(s, i + Len(sep), Len(s)), sep)

(***************************************************************************)
(* The links of the model: a base and a list of query parameters.          *)
(***************************************************************************)
\* "youtu.be/"
SYoutuBeSlash ==
    <<"y","o","u","t","u",".","b","e","/">>
\* "youtu.be"
SYoutuBe ==
    <<"y","o","u","t","u",".","b","e">>
\* "youtube.com"
SYoutubeCom ==
    <<"y","o","u","t","u","b","e",".","c","o","m">>
\* "youtube.com/watch"
SYoutubeWatch ==
    <<"y","o","u","t","u","b","e",".","c","o","m","/","w","a","t","c",
      "h">>
\* "v="
SVEq ==
    <<"v","=">>
\* "https://www.youtube.com/watch?v="
SWatchPrefix ==
    <<"h","t","t","p","s",":","/","/","w","w","w",".","y","o","u","t",
      "u","b","e",".","c","o","m","/","w","a","t","c","h","?","v","=">>
\* "playlist"
SPlaylist ==
    <<"p","l","a","y","l","i","s","t">>
\* "list="
SListEq ==
    <<"l","i","s","t","=">>
\* "spotify.com"
SSpotifyCom ==
    <<"s","p","o","t","i","f","y",".","c","o","m">>
\* "music.apple.com"
SAppleCom ==
    <<"m","u","s","i","c",".","a","p","p","l","e",".","c","o","m">>
\* "/playlist/"
SPlaylistSeg ==
    <<"/","p","l","a","y","l","i","s","t","/">>
\* "/album/"
SAlbumSeg ==
    <<"/","a","l","b","u","m","/">>
\* "?i="
SQIEq ==
    <<"?","i","=">>

Bases == {"short", "watch", "ytplaylist", "sptrack", "spalbum", "applealbum", "appleplaylist", "other"}

BaseText ==
       "short" :>
        <<"h","t","t","p","s",":","/","/","y","o","u","t","u",".","b",
          "e","/","d","Q","w","4">>
    @@ "watch" :>
        <<"h","t","t","p","s",":","/","/","w","w","w",".","y","o","u",
          "t","u","b","e",".","c","o","m","/","w","a","t","c","h">>
    @@ "ytplaylist" :>
        <<"h","t","t","p","s",":","/","/","w","w","w",".","y","o","u",
          "t","u","b","e",".","c","o","m","/","p","l","a","y","l","i",
          "s","t">>
    @@ "sptrack" :>
        <<"h","t","t","p","s",":","/","/","o","p","e","n",".","s","p",
          "o","t","i","f","y",".","c","o","m","/","t","r","a","c","k",
          "/","t","1">>
    @@ "spalbum" :>
        <<"h","t","t","p","s",":","/","/","o","p","e","n",".","s","p",
          "o","t","i","f","y",".","c","o","m","/","a","l","b","u","m",
          "/","a","1">>
    @@ "applealbum" :>
        <<"h","t","t","p","s",":","/","/","m","u","s","i","c",".","a",
          "p","p","l","e",".","c","o","m","/","u","s","/","a","l","b",
          "u","m","/","s","o","n","g","/","1","2","3">>
    @@ "appleplaylist" :>
        <<"h","t","t","p","s",":","/","/","m","u","s","i","c",".","a",
          "p","p","l","e",".","c","o","m","/","u","s","/","p","l","a",
          "y","l","i","s","t","/","m","i","x","/","p","l",".","1">>
    @@ "other" :>
        <<"h","t","t","p","s",":","/","/","e","x","a","m","p","l","e",
          ".","c","o","m","/","a","l","b","u","m","/","x">>
    @@ "appleshort" :>
        <<"h","t","t","p","s",":","/","/","m","u","s","i","c",".","a",
          "p","p","l","e",".","c","o","m","/","u","s","/","a","l","b",
          "u","m","/","a","b","c","/","1","2","3">>
    @@ "appleyear" :>
        <<"h","t","t","p","s",":","/","/","m","u","s","i","c",".","a",
          "p","p","l","e",".","c","o","m","/","u","s","/","s","o","n",
          "g","/","h","e","y","-","j","u","d","e","-","1","9","6","8">>
    @@ "applequoted" :>
        <<"h","t","t","p","s",":","/","/","m","u","s","i","c",".","a",
          "p","p","l","e",".","c","o","m","/","u","s","/","a","l","b",
          "u","m","/","h","e","y","%","2","0","j","u","d","e","_","l",
          "i","v","e","/","9">>

Params == {"v", "list", "i", "rv", "si"}

ParamName ==
       "v" :> <<"v">>
    @@ "list" :> <<"l","i","s","t">>
    @@ "i" :> <<"i">>
    @@ "rv" :> <<"r","v">>
    @@ "si" :> <<"s","i">>

ParamValue ==
       "v" :> <<"a","b","c">>
    @@ "list" :> <<"P","L","1">>
    @@ "i" :> <<"4","5","6">>
    @@ "rv" :> <<"x","y","z">>
    @@ "si" :> <<"t","o","k">>

\* the lists of distinct parameters, in every order
ParamLists ==
    { ps \in UNION { [1..n -> Params] : n \in 0..MaxParams } :
        \A i, j \in 1..Len(ps) : i # j => ps[i] # ps[j] }

Links == [base : Bases, params : ParamLists]

NoLink == [base |-> "none", params |-> <<>>]

\* "name=value"
ParamText(p) == ParamName[p] \o <<"=">> \o ParamValue[p]

RECURSIVE JoinParams(_)
JoinParams(ps) ==
    IF Len(ps) = 1 THEN ParamText(ps[1])
    ELSE ParamText(ps[1]) \o <<"&">> \o JoinParams(Tail(ps))

\* the text of a link, as the user typed it
UrlText(l) ==
    IF l.params = <<>> THEN BaseText[l.base]
    ELSE BaseText[l.base] \o <<"?">> \o JoinParams(l.params)

\* str.replace(a, b) for one-character a and b
ReplaceChar(s, a, b) == [i \in 1..Len(s) |-> IF s[i] = a THEN b ELSE s[i]]

(***************************************************************************)
(* clean_youtube_url, main.py lines 322-336                                *)
(***************************************************************************)
\* a short link is turned into a watch link that keeps its parameters
clean_youtube_url_keeps_params(u) ==
    IF Contains(SYoutuBeSlash, u)
    THEN SWatchPrefix \o ReplaceChar(SplitSecond(u, SYoutuBeSlash), "?", "&")
    ELSE IF Contains(SYoutubeWatch, u) /\ Contains(SVEq, u)
    THEN SWatchPrefix \o SplitFirst(SplitSecond(u, SVEq), <<"&">>)
    ELSE u

\* The except clause of line 335 is not reached on a str: each [1] is
\* guarded by the `in` test before it.
clean_youtube_url(u) ==
    IF Contains(SYoutuBeSlash, u)
    THEN SWatchPrefix \o
         SplitFirst(SplitFirst(SplitSecond(u, SYoutuBeSlash), <<"?">>), <<"&">>)
    ELSE IF Contains(SYoutubeWatch, u) /\ Contains(SVEq, u)
    THEN SWatchPrefix \o SplitFirst(SplitSecond(u, SVEq), <<"&">>)
    ELSE u

(***************************************************************************)
(* is_playlist, main.py lines 109-121 and direct_bot.py lines 72-82        *)
(***************************************************************************)
is_playlist(u) ==
    IF Contains(SYoutubeCom, u)
    THEN Contains(SPlaylist, u) \/ Contains(SListEq, u)
    ELSE IF Contains(SSpotifyCom, u)
    THEN Contains(SPlaylistSeg, u) \/ Contains(SAlbumSeg, u)
    ELSE IF Contains(SAppleCom, u)
    THEN Contains(SPlaylistSeg, u)
         \/ (Contains(SAlbumSeg, u) /\ ~Contains(SQIEq, u))
    ELSE FALSE

(***************************************************************************)
(* str and re: strip(), replace(), unquote(), the substitutions of         *)
(* get_track_title_from_url                                                *)
(***************************************************************************)
\* s.strip()
Strip(s) ==
    LET keep == { i \in 1..Len(s) : ~IsSpace(s[i]) }
    IN IF keep = {} THEN <<>>
       ELSE SubSeq(s, CHOOSE i \in keep : \A j \in keep : i <= j,
                      CHOOSE i \in keep : \A j \in keep : i >= j)

\* s.replace(old, new), old not empty
RECURSIVE ReplaceAll(_, _, _)
ReplaceAll(s, old, new) ==
    LET i == Find(old, s, 1)
    IN IF i = 0 THEN s
       ELSE SubSeq(s, 1, i - 1) \o new
            \o ReplaceAll(SubSeq(s, i + Len(old), Len(s)), old, new)

IsDigit(c) == c \in {"0", "1", "2", "3", "4", "5", "6", "7", "8", "9"}

\* re.sub(r'\s+\d+$', '', s): a final run of digits goes, with the whole
\* run of whitespace before it, when there is such whitespace
StripTrailingNumber(s) ==
    LET nondigit == { i \in 1..Len(s) : ~IsDigit(s[i]) }
        d == IF nondigit = {} THEN 0
             ELSE CHOOSE i \in nondigit : \A j \in nondigit : i >= j
        nonspace == { i \in 1..d : ~IsSpace(s[i]) }
        w == IF nonspace = {} THEN 0
             ELSE CHOOSE i \in nonspace : \A j \in nonspace : i >= j
    IN IF d < Len(s) /\ d >= 1 /\ IsSpace(s[d]) THEN SubSeq(s, 1, w) ELSE s

\* re.sub(r'\[.*?\]|\(.*?\)', '', s): from the left, every '[' with a later
\* ']' goes with the text up to the first such ']', and likewise '(' ')'
RECURSIVE RemoveBracketed(_)
RemoveBracketed(s) ==
    IF s = <<>> THEN <<>>
    ELSE LET close == IF s[1] = "[" THEN Find(<<"]">>, s, 2)
                      ELSE IF s[1] = "(" THEN Find(<<")">>, s, 2)
                      ELSE 0
         IN IF close # 0 THEN RemoveBracketed(SubSeq(s, close + 1, Len(s)))
            ELSE <<s[1]>> \o RemoveBracketed(Tail(s))

\* the escapes unquote() meets in the links of the model
Escapes == ("2" :> ("0" :> " " @@ "D" :> "-") @@ "5" :> ("F" :> "_"))

\* requests.utils.unquote(s): %XX becomes the character it encodes
RECURSIVE Unquote(_)
Unquote(s) ==
    IF s = <<>> THEN <<>>
    ELSE IF /\ s[1] = "%"
            /\ Len(s) >= 3
            /\ s[2] \in DOMAIN Escapes
            /\ s[3] \in DOMAIN Escapes[s[2]]
    THEN <<Escapes[s[2]][s[3]]>> \o Unquote(SubSeq(s, 4, Len(s)))
    ELSE <<s[1]>> \o Unquote(Tail(s))

\* "/song/"
SSongSlash ==
    <<"/","s","o","n","g","/">>
\* " - song and lyrics by "
SSongAndLyricsBy ==
    <<" ","-"," ","s","o","n","g"," ","a","n","d"," ","l","y","r","i",
      "c","s"," ","b","y"," ">>
\* " | Spotify"
SSpotifySuffix ==
    <<" ","|"," ","S","p","o","t","i","f","y">>
\* " - YouTube"
SDashYouTube ==
    <<" ","-"," ","Y","o","u","T","u","b","e">>
\* " | YouTube"
SPipeYouTube ==
    <<" ","|"," ","Y","o","u","T","u","b","e">>

(***************************************************************************)
(* get_track_title_from_url, main.py lines 249-320                         *)
(***************************************************************************)
\* a title, or None
TitleNone == [none |-> TRUE, text |-> <<>>]
TitleOf(s) == [none |-> FALSE, text |-> s]

\* `if track_title:` of line 350
Truthy(v) == ~v.none /\ v.text # <<>>

\* lines 257-265: the search term made of the metadata
MetaTitle(info) ==
    LET title == Strip(RemoveBracketed(info.title))
    IN IF info.artist # <<>> /\ ~Contains(Lower(info.artist), Lower(title))
       THEN info.artist \o <<" ">> \o title
       ELSE title

\* line 271, re.search(r'/(?:album|song)/([^/]+)', url): where the group
\* starts, 0 when there is no match
PathGroupStart(u) ==
    LET starts == { j \in 1..Len(u) :
                      /\ u[j] # "/"
                      /\ \/ (j > Len(SAlbumSeg) /\
                             SubSeq(u, j - Len(SAlbumSeg), j - 1) = SAlbumSeg)
                         \/ (j > Len(SSongSlash) /\
                             SubSeq(u, j - Len(SSongSlash), j - 1) = SSongSlash) }
    IN IF starts = {} THEN 0 ELSE CHOOSE j \in starts : \A k \in starts : j <= k

\* lines 271-276: the title read from the path of an Apple Music link
PathTitle(u) ==
    LET j == PathGroupStart(u)
        group == SplitFirst(SubSeq(u, j, Len(u)), <<"/">>)
        title == StripTrailingNumber(
                     ReplaceChar(ReplaceChar(Unquote(group), "-", " "), "_", " "))
    IN IF j = 0 THEN TitleNone
       ELSE IF Len(Strip(title)) > 3 THEN TitleOf(Strip(title)) ELSE TitleNone

\* the first pattern of line 286 on the text of <title>: song and artist
SongAndArtist(t) ==
    LET ends == Len(t) > Len(SSpotifySuffix) /\
                SubSeq(t, Len(t) - Len(SSpotifySuffix) + 1, Len(t)) = SSpotifySuffix
        core == SubSeq(t, 1, Len(t) - Len(SSpotifySuffix))
        i == Find(SSongAndLyricsBy, core, 2)
    IN IF ends /\ i # 0 /\ i + Len(SSongAndLyricsBy) <= Len(core)
       THEN [found |-> TRUE, song |-> SubSeq(core, 1, i - 1),
             artist |-> SubSeq(core, i + Len(SSongAndLyricsBy), Len(core))]
       ELSE [found |-> FALSE, song |-> <<>>, artist |-> <<>>]

\* the second pattern of line 287: the text before the final ' | Spotify'
BeforeSpotify(t) ==
    IF Len(t) > Len(SSpotifySuffix) /\
       SubSeq(t, Len(t) - Len(SSpotifySuffix) + 1, Len(t)) = SSpotifySuffix
    THEN [found |-> TRUE, text |-> SubSeq(t, 1, Len(t) - Len(SSpotifySuffix))]
    ELSE [found |-> FALSE, text |-> <<>>]

\* lines 285-298: the title read from a Spotify page
SpotifyPageTitle(page) ==
    LET p1 == SongAndArtist(page.title)
        p2 == BeforeSpotify(page.title)
        title == Strip(ReplaceAll(p2.text, SSpotifySuffix, <<>>))
    IN IF p1.found THEN TitleOf(p1.artist \o <<" ">> \o p1.song)
       ELSE IF p2.found
       THEN (IF Len(title) > 3 THEN TitleOf(title) ELSE TitleNone)
       ELSE IF page.name # <<>> /\ page.artist # <<>>
       THEN TitleOf(page.artist \o <<" ">> \o page.name)
       ELSE TitleNone

\* line 312, re.sub(r' - YouTube$| \| YouTube$', '', title)
StripYouTube(s) ==
    LET cut(suffix) == Len(s) >= Len(suffix) /\
                       SubSeq(s, Len(s) - Len(suffix) + 1, Len(s)) = suffix
    IN IF cut(SDashYouTube) THEN SubSeq(s, 1, Len(s) - Len(SDashYouTube))
       ELSE IF cut(SPipeYouTube) THEN SubSeq(s, 1, Len(s) - Len(SPipeYouTube))
       ELSE s

\* lines 308-313: the title read from any other page
GenericPageTitle(page) ==
    LET title == StripYouTube(Strip(page.title))
    IN IF page.title = <<>> THEN TitleNone
       ELSE IF Len(title) > 3 THEN TitleOf(title) ELSE TitleNone

\* what ydl.extract_info(url, download=False) can give: an exception or an
\* info dict, here by its 'title' and its 'artist'
MetaInfos == {"notitle", "heyjude", "selfnamed", "bracketonly"}

MetaData ==
       "notitle" :>
        [title |-> <<>>,
         artist |-> <<>>]
    @@ "heyjude" :>
        [title |-> 
            <<"H","e","y"," ","J","u","d","e"," ","(","R","e","m","a",
              "s","t","e","r","e","d",")">>,
         artist |-> 
            <<"T","h","e"," ","B","e","a","t","l","e","s">>]
    @@ "selfnamed" :>
        [title |-> 
            <<"Q","u","e","e","n"," ","-"," ","L","i","v","e"," ","[",
              "H","D","]">>,
         artist |-> <<"Q","u","e","e","n">>]
    @@ "bracketonly" :>
        [title |-> <<"(","I","n","t","r","o",")">>,
         artist |-> <<>>]

\* what requests.get(url) can give: an exception or a page, here by the text
\* of its <title> element and the first "name" and artist "name" of its JSON
Pages == {"sp_song", "sp_short", "sp_plain", "sp_tiny", "ld_only", "empty", "yt_title", "yt_pad", "tiny"}

PageData ==
       "sp_song" :>
        [title |-> 
            <<"H","e","y"," ","J","u","d","e"," ","-"," ","s","o","n",
              "g"," ","a","n","d"," ","l","y","r","i","c","s"," ","b",
              "y"," ","T","h","e"," ","B","e","a","t","l","e","s"," ",
              "|"," ","S","p","o","t","i","f","y">>,
         name |-> <<>>,
         artist |-> <<>>]
    @@ "sp_short" :>
        [title |-> 
            <<"A"," ","-"," ","s","o","n","g"," ","a","n","d"," ","l",
              "y","r","i","c","s"," ","b","y"," ","B"," ","|"," ","S",
              "p","o","t","i","f","y">>,
         name |-> <<>>,
         artist |-> <<>>]
    @@ "sp_plain" :>
        [title |-> 
            <<"H","e","y"," ","J","u","d","e"," ","|"," ","S","p","o",
              "t","i","f","y">>,
         name |-> <<>>,
         artist |-> <<>>]
    @@ "sp_tiny" :>
        [title |-> 
            <<"a","b","c"," ","|"," ","S","p","o","t","i","f","y">>,
         name |-> <<>>,
         artist |-> <<>>]
    @@ "ld_only" :>
        [title |-> <<>>,
         name |-> <<"H","e","y"," ","J","u","d","e">>,
         artist |-> 
            <<"T","h","e"," ","B","e","a","t","l","e","s">>]
    @@ "empty" :>
        [title |-> <<>>,
         name |-> <<>>,
         artist |-> <<>>]
    @@ "yt_title" :>
        [title |-> 
            <<"H","e","y"," ","J","u","d","e"," ","-"," ","Y","o","u",
              "T","u","b","e">>,
         name |-> <<>>,
         artist |-> <<>>]
    @@ "yt_pad" :>
        [title |-> 
            <<"a","b","c"," "," ","-"," ","Y","o","u","T","u","b","e">>,
         name |-> <<>>,
         artist |-> <<>>]
    @@ "tiny" :>
        [title |-> <<"a","b","c">>,
         name |-> <<>>,
         artist |-> <<>>]

\* the outcomes of the two fetches
MetaOutcomes == {"raise"} \cup MetaInfos
PageOutcomes == {"raise"} \cup Pages

\* the frame of get_track_title_from_url: `tried` lists the strategies
\* entered, `errors` those whose fetch raised
IdleTitle ==
    [pc |-> "idle", url |-> <<>>, tried |-> <<>>, errors |-> {},
     result |-> TitleNone]

GttCall(u) == [IdleTitle EXCEPT !.pc = "metadata", !.url = u]

\* lines 253-267: the metadata fetch
GttMetadataStep(f, m) ==
    LET g == [f EXCEPT !.tried = Append(@, "metadata")]
    IN IF m = "raise"
       THEN [g EXCEPT !.pc = "fallback", !.errors = @ \cup {"metadata"}]
       ELSE IF MetaData[m].title # <<>>
       THEN [g EXCEPT !.pc = "done", !.result = TitleOf(MetaTitle(MetaData[m]))]
       ELSE [g EXCEPT !.pc = "fallback"]

\* an Apple Music link whose path gives no title goes on to the page fetch
GttFallbackStepPathThenPage(f) ==
    IF Contains(SAppleCom, f.url) /\ ~PathTitle(f.url).none
    THEN [f EXCEPT !.pc = "done", !.tried = Append(@, "path"),
                   !.result = PathTitle(f.url)]
    ELSE IF Contains(SAppleCom, f.url)
    THEN [f EXCEPT !.pc = "page", !.tried = Append(@, "path")]
    ELSE [f EXCEPT !.pc = "page"]

\* lines 270-276, 278 and 303: the strategy chosen by the service of the link
GttFallbackStep(f) ==
    IF Contains(SAppleCom, f.url)
    THEN [f EXCEPT !.pc = "done", !.tried = Append(@, "path"),
                   !.result = PathTitle(f.url)]
    ELSE [f EXCEPT !.pc = "page"]

\* a page fetch that fails leaves the link itself as the title
GttPageStepUrlAsTitle(f, p) ==
    LET g == [f EXCEPT !.pc = "done", !.tried = Append(@, "page")]
    IN IF p = "raise"
       THEN [g EXCEPT !.errors = @ \cup {"page"}, !.result = TitleOf(f.url)]
       ELSE IF Contains(SSpotifyCom, f.url)
       THEN [g EXCEPT !.result = SpotifyPageTitle(PageData[p])]
       ELSE [g EXCEPT !.result = GenericPageTitle(PageData[p])]

\* lines 279-300 and 304-315: the page fetch; an exception of it is caught
\* at line 299, 314 or 317 and None is returned at line 320
GttPageStep(f, p) ==
    LET g == [f EXCEPT !.pc = "done", !.tried = Append(@, "page")]
    IN IF p = "raise"
       THEN [g EXCEPT !.errors = @ \cup {"page"}, !.result = TitleNone]
       ELSE IF Contains(SSpotifyCom, f.url)
       THEN [g EXCEPT !.result = SpotifyPageTitle(PageData[p])]
       ELSE [g EXCEPT !.result = GenericPageTitle(PageData[p])]

(***************************************************************************)
(* download_music, main.py lines 338-382                                   *)
(***************************************************************************)
IdleDownload ==
    [pc |-> "idle", url |-> <<>>, track_title |-> <<>>,
     download_url |-> NoUrl, result |-> NoStr]

\* lines 341-349: cleanup, then the link is cleaned or its title is looked up
DmCallStep(u) ==
    IF Contains(SYoutubeCom, u) \/ Contains(SYoutuBe, u)
    THEN [IdleDownload EXCEPT !.pc = "download", !.url = u,
                              !.download_url = Url(clean_youtube_url(u))]
    ELSE [IdleDownload EXCEPT !.pc = "title", !.url = u]

\* lines 350-357: no title, no download
DmTitleStep(d, title) ==
    IF Truthy(title)
    THEN [d EXCEPT !.pc = "api", !.track_title = title.text]
    ELSE [d EXCEPT !.pc = "done", !.result = NoStr]

\* lines 351-355
DmApiStep(d, api_url) ==
    [d EXCEPT !.pc = "download",
              !.download_url = IF api_url # NoStr THEN Url(api_url)
                               ELSE YtSearch(1, d.track_title)]

\* main.py line 641: the polling loop before its first poll
\* main.py line 641: the loop before its first poll.  handled, finished and
\* raised are the ids of the updates taken from a batch (line 646), of those
\* whose handler ran to its end and of those whose handler raised; dropped
\* are the ids left in a batch when a handler raised; interrupted and
\* exit_cleanups record KeyboardInterrupt and the
\* cleanup_files call of line 750.
IdleLoop ==
    [pc |-> "poll", batch |-> <<>>, handled |-> <<>>, finished |-> {},
     raised |-> {}, dropped |-> {}, interrupted |-> FALSE,
     exit_cleanups |-> 0]

\* direct_bot.py line 544: the loop before its first poll, no playlist
IdleDirect ==
    [pc |-> "poll", batch |-> <<>>, entries |-> <<>>, i |-> 0,
     success |-> FALSE]

\* send_document has not been called
IdleSend ==
    [pc |-> "idle", chat_id |-> "c1", file_path |-> NoStr, retries |-> 0,
     attempt |-> 0, tries |-> <<>>, slept |-> <<>>, result |-> "None"]

\* the requests that can run at the same time
Jobs == {"j1", "j2"}

\* a request that has not arrived
IdleJob ==
    [pc |-> "idle", kind |-> "search", file_path |-> NoStr, made |-> {},
     got |-> NoStr, reply |-> NoStr]

\* process_playlist has not been called.  tracks holds, for each track of
\* the list, its position among the titles the extractor found; reported
\* are the totals named in the messages, final the k and n of the last one.
IdlePlaylist ==
    [pc |-> "idle", chat_id |-> "c1", spotify |-> FALSE, extracted |-> 0,
     tracks |-> <<>>, i |-> 0, sent_count |-> 0, attempted |-> <<>>,
     delivered |-> 0, reported |-> {},
     final |-> [sent |-> FALSE, k |-> 0, n |-> 0]]

\* is_playlist has not been called
NotClassified == [called |-> FALSE, result |-> FALSE]

FrontendIdle ==
    /\ link = NoLink
    /\ cyu = <<>>
    /\ ipl = NotClassified
    /\ gtt = IdleTitle
    /\ dm = IdleDownload
    /\ inbox = <<>>
    /\ loop = IdleLoop
    /\ threads = {}
    /\ direct = IdleDirect
    /\ sd = IdleSend
    /\ jobs = [j \in Jobs |-> IdleJob]
    /\ pp = IdlePlaylist

(***************************************************************************)
(* The ranker on its own: one call of find_best_match, step by step.       *)
(***************************************************************************)
\* no earlier call is remembered
NoCall ==
    [valid |-> FALSE, query |-> <<>>, search_results |-> NoneV,
     result |-> NoResult, at |-> 0]

InitRank ==
    /\ user_processes = EmptyDict
    /\ last_update_id = 0
    /\ query = QBohemian
    /\ search_results = NoneV
    /\ fbm = IdleFrame
    /\ prev = NoCall
    /\ psq = IdleWorker
    /\ files = {}
    /\ searched = <<>>
    /\ downloads = <<>>
    /\ sent = <<>>
    /\ FrontendIdle

RankCall ==
    /\ fbm.pc = "idle"
    /\ \E q \in Queries, sr \in SearchResults :
        /\ query' = q
        /\ search_results' = sr
        /\ fbm' = FbmCall(q, sr)
    /\ UNCHANGED <<globals, worker, prev, frontend>>

RankIter ==
    /\ fbm.pc = "loop"
    /\ FbmMore(search_results, fbm)
    /\ fbm' = FbmIter(query, search_results, fbm)
    /\ UNCHANGED <<globals, worker, query, search_results, prev, frontend>>

RankReturn ==
    /\ fbm.pc = "loop"
    /\ ~FbmMore(search_results, fbm)
    /\ fbm' = FbmReturn(search_results, fbm)
    /\ UNCHANGED <<globals, worker, query, search_results, prev, frontend>>

NextRank == RankCall \/ RankIter \/ RankReturn

SpecRank == InitRank /\ [][NextRank]_vars

(***************************************************************************)
(* Properties of the ranker                                                *)
(***************************************************************************)
\* the call has returned or raised
RankDone == fbm.pc = "done"

\* search_results carries an 'entries' list
HasList == search_results.tag = "dict" /\ search_results.has_entries

\* the positions the ranker scores: the usable entries among the first five
Scored ==
    { i \in 1..Len(search_results.entries) :
        i <= 5 /\ search_results.entries[i] # NoEntry }

ScoreAt(i) == Score(query, search_results.entries[i])

\* some scored entry's score exceeds 0.3
Confident == \E i \in Scored : FGt(ScoreAt(i), F03)

\* C1: for a non-empty list of at most five entries the call returns, and
\* what it returns is one of the entries of the list.
C1_ReturnsAnEntry ==
    (RankDone /\ HasList /\ Len(search_results.entries) \in 1..5)
        => /\ fbm.result.kind = "return"
           /\ \E i \in 1..Len(search_results.entries) :
                search_results.entries[i] = fbm.result.value

\* a five-entry list whose third entry is picked by its score
C1_Witness ==
    /\ RankDone /\ HasList /\ Len(search_results.entries) = 5
    /\ fbm.result = Return(search_results.entries[3])
    /\ \A i \in {1, 2, 4, 5} :
        search_results.entries[i] # search_results.entries[3]

\* C2: with an empty candidate list the call returns None and does not raise.
C2_EmptyListReturnsNone ==
    (RankDone /\ (~HasList \/ Len(search_results.entries) = 0))
        => fbm.result = Return(NoEntry)

\* C3: when no score exceeds 0.3 the first entry of the list is returned,
\* whichever entry scored highest; when one does, a top-scored entry is.
C3_ThresholdFallback ==
    (RankDone /\ HasList /\ Len(search_results.entries) >= 1)
        => IF Confident
           THEN \E i \in Scored :
                    /\ fbm.result = Return(search_results.entries[i])
                    /\ \A j \in Scored : ~FGt(ScoreAt(j), ScoreAt(i))
           ELSE fbm.result = Return(search_results.entries[1])

\* "one love" on [Queen Live Zone, Lovely Live Music]: the best score is
\* 0.2, that of the second entry, and the first entry is returned
C3_Witness ==
    /\ RankDone
    /\ query = QOneLove
    /\ search_results = ResultDict(TRUE, TRUE, <<"zone", "livemusic">>)
    /\ fbm.best_match = "livemusic"
    /\ fbm.best_score = F02
    /\ fbm.result = Return("zone")

\* C4: when a score exceeds 0.3 the entry returned is among the first five,
\* no scored entry has a higher score, and every earlier scored entry has a
\* strictly lower one.
C4_FirstMaxOfTopFive ==
    (RankDone /\ HasList /\ Confident)
        => \E i \in Scored :
            /\ fbm.result = Return(search_results.entries[i])
            /\ \A j \in Scored : ~FGt(ScoreAt(j), ScoreAt(i))
            /\ \A j \in Scored : j < i => FGt(ScoreAt(i), ScoreAt(j))

\* "Queen live": the second and third entries tie at the top of the first
\* five, the sixth entry outscores them all, and the second is returned
C4_Witness ==
    /\ RankDone
    /\ query = QQueenLive
    /\ search_results = ResultDict(TRUE, TRUE,
            <<"live", "livemusic", "official", "remix", "remix", "zone">>)
    /\ ScoreAt(2) = ScoreAt(3)
    /\ FGt(ScoreAt(6), ScoreAt(2))
    /\ fbm.result = Return("livemusic")

\* the score as the claim words it: the share of the query's distinct words
\* found among the title's and the uploader's words, then the bonuses and
\* penalties in the order given, each a float operation
ClaimedScore(q, entry) ==
    LET words(t)  == WordSet(Lower(t))
        found     == { w \in words(q) :
                         w \in words(entry.title) \cup words(entry.uploader) }
        inTitle(t) == Contains(t, Lower(entry.title))
        inQuery(t) == Contains(t, Lower(q))
        share     == FDiv(Cardinality(found), Cardinality(words(q)))
        a == IF \E w \in words(q) : Len(w) >= 4 /\ inTitle(w) THEN FAdd(share, F03) ELSE share
        b == IF inTitle(SOfficial) \/ inTitle(SAudio) \/ inTitle(SMusic) THEN FAdd(a, F01) ELSE a
        c == IF inTitle(SLive) /\ ~inQuery(SLive) THEN FSub(b, F02) ELSE b
    IN  IF inTitle(SRemix) /\ ~inQuery(SRemix) THEN FSub(c, F01) ELSE c

\* ClaimedScore over the inputs of the model, evaluated once
ClaimedTable ==
    [q \in Queries, e \in Candidates |-> ClaimedScore(q, EntryData[e])]

\* the loop has just scored the entry before position idx
JustScored ==
    /\ fbm.pc = "loop" /\ fbm.idx > 1
    /\ search_results.entries[fbm.idx - 1] # NoEntry

\* C5: the score the loop computes for an entry is the claimed formula.
C5_ScoreFormula ==
    JustScored
        => fbm.score = ClaimedTable[query, search_results.entries[fbm.idx - 1]]

\* "one love" on "Lovely Official Remix": no word found, 'love' in the title,
\* 'official' and 'remix' in it: 0 + 0.3 + 0.1 - 0.1, which is above 0.3
C5_Witness ==
    /\ JustScored
    /\ query = QOneLove
    /\ search_results.entries[fbm.idx - 1] = "remix"
    /\ FGt(fbm.score, F03)
    /\ ~FGt(fbm.score, FAdd(F03, F01))

\* C6: "Bohemian Rhapsody Queen" on the official video and the live cover:
\* the first scores strictly higher and is returned.
C6_BohemianExample ==
    (RankDone /\ query = QBohemian
        /\ search_results = ResultDict(TRUE, TRUE, <<"official", "live">>))
        => /\ FGt(Score(query, "official"), Score(query, "live"))
           /\ fbm.result = Return("official")

C6_Witness ==
    /\ RankDone /\ query = QBohemian
    /\ search_results = ResultDict(TRUE, TRUE, <<"official", "live">>)
    /\ fbm.best_match = "official"
    /\ fbm.score = Score(QBohemian, "live")

\* C37: whenever one of the first five entries is usable (not None), the
\* call returns a usable entry: None entries are skipped by the scoring and
\* are never the entry returned, on the low-confidence path either.
C37_ReturnsUsableEntry ==
    (RankDone /\ HasList /\ Scored # {})
        => /\ fbm.result.kind = "return"
           /\ fbm.result.value # NoEntry

(***************************************************************************)
(* The search worker: one run of process_search_query, step by step.       *)
(***************************************************************************)
InitSearch == InitRank

\* lines 520-522: the thread starts, sets the flag and cleans up
PsqStart ==
    /\ psq.pc = "idle"
    /\ \E q \in Queries, c \in Chats :
        /\ psq' = [psq EXCEPT !.pc = "api", !.query = q, !.chat_id = c]
        /\ user_processes' = DictSet(user_processes, c, TRUE)
    /\ files' = {}
    /\ UNCHANGED <<last_update_id, ranker, searched, downloads, sent, frontend>>

\* lines 531-538: the API search
PsqApi ==
    /\ psq.pc = "api"
    /\ \E youtube_url \in ApiOutcomes :
        psq' = IF youtube_url # NoStr
               THEN [psq EXCEPT !.api_url = youtube_url,
                                !.download_url = Url(youtube_url),
                                !.pc = "download"]
               ELSE [psq EXCEPT !.pc = "search", !.k = 1]
    /\ UNCHANGED <<globals, ranker, files, searched, downloads, sent, frontend>>

\* lines 540-553: one iteration of the loop over search_queries
PsqSearch ==
    /\ psq.pc = "search"
    /\ \E outcome \in ExtractOutcomes :
        LET r == BestOf(psq.query, outcome)
        IN  /\ searched' = Append(searched,
                    [target |-> YtSearch(5, SearchQueries(psq.query)[psq.k]),
                     selected |-> Selected(r)])
            /\ psq' = PsqSearchStep(psq, r)
    /\ UNCHANGED <<globals, ranker, files, downloads, sent, frontend>>

\* lines 555-559
PsqAfterSearch ==
    /\ psq.pc = "after_search"
    /\ psq' = PsqAfterSearchStep(psq)
    /\ UNCHANGED <<globals, ranker, files, searched, downloads, sent, frontend>>

\* lines 562-577 and 596-598: the download, which may raise, leave a file
\* or leave none
PsqDownload ==
    /\ psq.pc = "download"
    /\ downloads' = Append(downloads, DownloadTarget(psq))
    /\ \/ /\ psq' = [psq EXCEPT !.pc = "finally"]
          /\ sent' = Send(sent, psq.chat_id, MsgDownloadFailed)
          /\ UNCHANGED files
       \/ /\ psq' = [psq EXCEPT !.pc = "glob"]
          /\ \E f \in FileNames : files' = files \cup {f}
          /\ UNCHANGED sent
       \/ /\ psq' = [psq EXCEPT !.pc = "glob"]
          /\ UNCHANGED <<files, sent>>
    /\ UNCHANGED <<globals, ranker, searched, frontend>>

\* lines 579-582 and 593-594: glob.glob("*.mp3") and its first file
PsqGlob ==
    /\ psq.pc = "glob"
    /\ \/ /\ files # {}
          /\ \E f \in files : psq' = [psq EXCEPT !.file_path = f, !.pc = "send"]
          /\ sent' = Send(sent, psq.chat_id, MsgFound)
       \/ /\ files = {}
          /\ psq' = [psq EXCEPT !.pc = "finally"]
          /\ sent' = Send(sent, psq.chat_id, MsgNotFound)
    /\ UNCHANGED <<globals, ranker, files, searched, downloads, frontend>>

\* lines 584-587 without the message of line 587
PsqSendSilentOnFailure ==
    /\ psq.pc = "send"
    /\ \E ok \in BOOLEAN :
        sent' = IF ok THEN Send(sent, psq.chat_id, MsgEnjoy) ELSE sent
    /\ psq' = [psq EXCEPT !.pc = "remove"]
    /\ UNCHANGED <<globals, ranker, files, searched, downloads, frontend>>

\* lines 584-587: send_document and the message on its result
PsqSend ==
    /\ psq.pc = "send"
    /\ \E ok \in BOOLEAN :
        sent' = Send(sent, psq.chat_id, IF ok THEN MsgEnjoy ELSE MsgNotSent)
    /\ psq' = [psq EXCEPT !.pc = "remove"]
    /\ UNCHANGED <<globals, ranker, files, searched, downloads, frontend>>

\* lines 589-592
PsqRemove ==
    /\ psq.pc = "remove"
    /\ files' = files \ {psq.file_path}
    /\ psq' = [psq EXCEPT !.pc = "finally"]
    /\ UNCHANGED <<globals, ranker, searched, downloads, sent, frontend>>

\* lines 603-604
PsqFinally ==
    /\ psq.pc = "finally"
    /\ user_processes' = DictSet(user_processes, psq.chat_id, FALSE)
    /\ psq' = [psq EXCEPT !.pc = "done"]
    /\ UNCHANGED <<last_update_id, ranker, files, searched, downloads, sent, frontend>>

NextSearch ==
    \/ PsqStart \/ PsqApi \/ PsqSearch \/ PsqAfterSearch \/ PsqDownload
    \/ PsqGlob \/ PsqSend \/ PsqRemove \/ PsqFinally

SpecSearch == InitSearch /\ [][NextSearch]_vars

(***************************************************************************)
(* The ranker called again and again while the polling loop changes the    *)
(* globals; prev remembers one of the calls made before.                   *)
(***************************************************************************)
PureQueries == {QBohemian, QOneLove}

PureSearchResults ==
    {NoneV} \cup
    { ResultDict(TRUE, TRUE, l) :
        l \in UNION { [1..n -> {"official", "live", NoEntry}] :
                        n \in 0..MaxPureEntries } }

InitPure == InitRank

\* a call of find_best_match; the call that has just ended is remembered
\* or not
PureCall ==
    /\ fbm.pc \in {"idle", "done"}
    /\ \E q \in PureQueries, sr \in PureSearchResults :
        /\ query' = q
        /\ search_results' = sr
        /\ fbm' = FbmCall(q, sr)
    /\ \/ prev' = prev
       \/ /\ fbm.pc = "done"
          /\ prev' = [valid |-> TRUE, query |-> query,
                      search_results |-> search_results,
                      result |-> fbm.result, at |-> last_update_id]
    /\ UNCHANGED <<globals, worker, frontend>>

\* main.py:646, the polling loop records an update id
EnvUpdateId ==
    /\ last_update_id < MaxUpdateId
    /\ last_update_id' = last_update_id + 1
    /\ UNCHANGED <<user_processes, ranker, worker, frontend>>

\* main.py:690 and 722, the polling loop sets and clears a chat's flag
EnvFlag ==
    /\ \E v \in BOOLEAN : user_processes' = DictSet(user_processes, "c1", v)
    /\ UNCHANGED <<last_update_id, ranker, worker, frontend>>

NextPure == PureCall \/ RankIter \/ RankReturn \/ EnvUpdateId \/ EnvFlag

SpecPure == InitPure /\ [][NextPure]_vars

\* the entries of a result, as a set
EntrySet(sr) ==
    IF sr.tag = "dict" /\ sr.has_entries
    THEN { sr.entries[i] : i \in 1..Len(sr.entries) }
    ELSE {}

\* C7 as stated: a call with the query and the set of candidates of an
\* earlier call returns what that call returned (here for lists of usable
\* candidates only, none of them None).
C7_SameSetSameResult ==
    (RankDone /\ prev.valid /\ prev.query = query
        /\ prev.search_results.tag = search_results.tag
        /\ EntrySet(prev.search_results) = EntrySet(search_results)
        /\ NoEntry \notin EntrySet(search_results))
        => fbm.result = prev.result

\* C7, amended: a call with the query and the candidate list (the same
\* entries in the same order) of an earlier call returns what that call
\* returned, whatever was called and whatever the globals became in
\* between, and no step of the ranker changes a global.
C7_SameListSameResult ==
    /\ [](RankDone /\ prev.valid /\ prev.query = query
            /\ prev.search_results = search_results
          => fbm.result = prev.result)
    /\ [][fbm' # fbm => UNCHANGED globals]_vars

\* the same two-entry list ranked a second time, after the update id and
\* the flags have changed
C7_Witness ==
    /\ RankDone /\ prev.valid /\ prev.query = query
    /\ prev.search_results = search_results
    /\ HasList /\ Len(search_results.entries) = 2
    /\ prev.at # last_update_id
    /\ user_processes # EmptyDict
    /\ fbm.result = prev.result
    /\ fbm.result.value = search_results.entries[2]

(***************************************************************************)
(* Properties of the search worker                                         *)
(***************************************************************************)
\* C8: what is handed to the downloader is the URL of the candidate the API
\* search or the ranker selected, and the blind term only if none was.
C8_DownloadsSelectedUrl ==
    \A i \in 1..Len(downloads) : downloads[i] = psq.download_url

\* the k-th term of the claim: the text, then with " official audio", then
\* with " music"
ClaimedTerm(q, k) ==
    IF k = 1 THEN q
    ELSE IF k = 2 THEN q \o SOfficialAudioSuffix
    ELSE q \o SMusicSuffix

\* C9: the terms searched are, in order, the first terms of the fixed list;
\* every search but the last made selected nothing; and once the loop is
\* left, either the last search selected a candidate or all three were made.
C9_SearchOrder ==
    /\ Len(searched) <= 3
    /\ \A i \in 1..Len(searched) :
        /\ searched[i].target = YtSearch(5, ClaimedTerm(psq.query, i))
        /\ i < Len(searched) => ~searched[i].selected
    /\ (psq.api_url = NoStr /\ psq.pc \notin {"idle", "api", "search"})
        => /\ Len(searched) >= 1
           /\ searched[Len(searched)].selected \/ Len(searched) = 3

\* the first two searches selected nothing and the third, of
\* "one love music", did
C9_Witness ==
    /\ psq.pc = "done"
    /\ psq.query = QOneLove
    /\ Len(searched) = 3
    /\ searched[3].selected
    /\ searched[3].target = YtSearch(5, QOneLove \o SMusicSuffix)
    /\ searched[2].target = YtSearch(5, QOneLove \o SOfficialAudioSuffix)

\* the messages that report a failure to the user
FailureTexts == {MsgNotSent, MsgNotFound, MsgDownloadFailed}

\* the API search and all three ytsearch attempts selected nothing
AllSearchesFailed ==
    /\ psq.pc \notin {"idle", "api", "search"}
    /\ psq.api_url = NoStr
    /\ Len(searched) = 3
    /\ \A i \in 1..3 : ~searched[i].selected

\* C10: when every search attempt selected nothing, a failure message is
\* sent only after one download of "ytsearch1:<query>" has been tried.
C10_BlindDownloadBeforeFailure ==
    (AllSearchesFailed /\ \E i \in 1..Len(sent) : sent[i].text \in FailureTexts)
        => downloads = <<YtSearch(1, psq.query)>>

C10_Witness ==
    /\ AllSearchesFailed
    /\ psq.pc = "done"
    /\ psq.download_url = YtSearch(1, psq.query)
    /\ downloads = <<YtSearch(1, psq.query)>>
    /\ sent = <<[chat |-> psq.chat_id, text |-> MsgDownloadFailed]>>

(***************************************************************************)
(* The link functions applied to the links a user can send.                *)
(***************************************************************************)
outside_urls == <<globals, ranker, worker, titles, dispatch, direct, uploads>>

InitUrl == InitRank

\* a message whose text is a link arrives
UrlReceive ==
    /\ link = NoLink
    /\ link' \in Links
    /\ UNCHANGED <<cyu, ipl, outside_urls>>

\* clean_youtube_url applied to the link, then to its own result
CleanUrl ==
    /\ link # NoLink
    /\ Len(cyu) < 2
    /\ cyu' = Append(cyu, clean_youtube_url(
                  IF cyu = <<>> THEN UrlText(link) ELSE cyu[Len(cyu)]))
    /\ UNCHANGED <<link, ipl, outside_urls>>

\* main.py line 692: is_playlist applied to the link
ClassifyUrl ==
    /\ link # NoLink
    /\ ~ipl.called
    /\ ipl' = [called |-> TRUE, result |-> is_playlist(UrlText(link))]
    /\ UNCHANGED <<link, cyu, outside_urls>>

NextUrl == UrlReceive \/ CleanUrl \/ ClassifyUrl

SpecUrl == InitUrl /\ [][NextUrl]_vars

HasParam(l, p) == \E i \in 1..Len(l.params) : l.params[i] = p

\* 'youtu.be/<id>...' or 'youtube.com/watch?...v=<id>...'
PlatformForm(l) ==
    l.base = "short" \/ (l.base = "watch" /\ HasParam(l, "v"))

\* C11: clean_youtube_url is idempotent on platform links: for a link of the
\* form youtu.be/<id> or youtube.com/watch?..v=<id>.., with any further
\* parameters in any order, cleaning the cleaned link gives the cleaned link.
C11_CleanIdempotent ==
    (PlatformForm(link) /\ Len(cyu) = 2) => cyu[2] = cyu[1]

C11_Witness ==
    /\ link.base = "short"
    /\ Len(link.params) = 2
    /\ link.params[1] = "v"
    /\ Len(cyu) = 2
    /\ cyu[2] = cyu[1]
    /\ cyu[1] # UrlText(link)

\* C12: for a watch link with the parameter v=<id> and any other parameters
\* in any order, clean_youtube_url returns
\* 'https://www.youtube.com/watch?v=<id>' with the value of that parameter.
C12_KeepsPrimaryId ==
    (link.base = "watch" /\ HasParam(link, "v") /\ Len(cyu) >= 1)
        => cyu[1] = SWatchPrefix \o ParamValue["v"]

\* the link without its parameter p
WithoutParam(l, p) ==
    [l EXCEPT !.params = SelectSeq(l.params, LAMBDA x : x # p)]

\* C13: every link that carries a list= parameter is classified as a
\* collection, and the same link without that parameter is classified as a
\* single item.
C13_ListMeansCollection ==
    (ipl.called /\ HasParam(link, "list")) =>
        /\ ipl.result = TRUE
        /\ is_playlist(UrlText(WithoutParam(link, "list"))) = FALSE

\* the links of the three services is_playlist knows, by their path
AppleLink(l) == l.base \in {"applealbum", "appleplaylist"}
CollectionPath(l) ==
    l.base \in {"ytplaylist", "spalbum", "applealbum", "appleplaylist"}

\* C14: the single-track parameter overrides the collection classification:
\* an Apple Music link that carries i= is a single item even under an album
\* or playlist path, and a link with an album or playlist path and no i= is
\* a collection.
C14_SingleTrackOverrides ==
    ipl.called =>
        /\ (AppleLink(link) /\ HasParam(link, "i")) => ipl.result = FALSE
        /\ (CollectionPath(link) /\ ~HasParam(link, "i")) => ipl.result = TRUE

(***************************************************************************)
(* A single-track link: download_music and get_track_title_from_url, step  *)
(* by step.                                                                *)
(***************************************************************************)
outside_titles ==
    <<globals, ranker, psq, searched, sent, cyu, ipl, dispatch, direct,
      uploads>>

\* the links handed to download_music
DmBases ==
    {"short", "watch", "sptrack", "applealbum", "appleplaylist", "other",
     "appleshort", "appleyear", "applequoted"}

DmLinks == { l \in [base : DmBases, params : ParamLists] : Len(l.params) <= 1 }

InitTitle == InitRank

\* main.py line 705 and lines 341-349
DmCall ==
    /\ dm.pc = "idle"
    /\ \E l \in DmLinks :
        /\ link' = l
        /\ dm' = DmCallStep(UrlText(l))
        /\ gtt' = IF dm'.pc = "title" THEN GttCall(UrlText(l)) ELSE gtt
    /\ files' = {}
    /\ UNCHANGED <<downloads, outside_titles>>

GttMetadata ==
    /\ gtt.pc = "metadata"
    /\ \E m \in MetaOutcomes : gtt' = GttMetadataStep(gtt, m)
    /\ UNCHANGED <<link, dm, files, downloads, outside_titles>>

GttFallback ==
    /\ gtt.pc = "fallback"
    /\ gtt' = GttFallbackStep(gtt)
    /\ UNCHANGED <<link, dm, files, downloads, outside_titles>>

GttPage ==
    /\ gtt.pc = "page"
    /\ \E p \in PageOutcomes : gtt' = GttPageStep(gtt, p)
    /\ UNCHANGED <<link, dm, files, downloads, outside_titles>>

\* lines 349-357: get_track_title_from_url has returned
DmTitle ==
    /\ dm.pc = "title"
    /\ gtt.pc = "done"
    /\ dm' = DmTitleStep(dm, gtt.result)
    /\ UNCHANGED <<link, gtt, files, downloads, outside_titles>>

DmApi ==
    /\ dm.pc = "api"
    /\ \E a \in ApiOutcomes : dm' = DmApiStep(dm, a)
    /\ UNCHANGED <<link, gtt, files, downloads, outside_titles>>

\* lines 373-382: the download raises, leaves an mp3 file or leaves none
DmDownload ==
    /\ dm.pc = "download"
    /\ downloads' = Append(downloads, dm.download_url)
    /\ \/ /\ dm' = [dm EXCEPT !.pc = "done", !.result = NoStr]
          /\ UNCHANGED files
       \/ \E f \in FileNames :
          /\ files' = files \cup {f}
          /\ \E g \in files' : dm' = [dm EXCEPT !.pc = "done", !.result = g]
       \/ /\ files = {}
          /\ dm' = [dm EXCEPT !.pc = "done", !.result = NoStr]
          /\ UNCHANGED files
    /\ UNCHANGED <<link, gtt, outside_titles>>

NextTitle ==
    DmCall \/ GttMetadata \/ GttFallback \/ GttPage \/ DmTitle \/ DmApi
    \/ DmDownload

SpecTitle == InitTitle /\ [][NextTitle]_vars

TitleDone == gtt.pc = "done"

IsPrefix(a, b) == Len(a) <= Len(b) /\ SubSeq(b, 1, Len(a)) = a

\* C15: for a link of another service the strategies are tried in the order
\* metadata fetch, title from the URL path, title from the fetched page,
\* each only after the one before it failed, and None is returned only
\* after all three have been tried.
C15_ThreeStrategiesInOrder ==
    TitleDone =>
        /\ IsPrefix(gtt.tried, <<"metadata", "path", "page">>)
        /\ gtt.result.none => gtt.tried = <<"metadata", "path", "page">>

\* C15 as the code has it: the metadata fetch comes first; when it gives no
\* title exactly one further strategy is tried, chosen by the service of the
\* link: the URL path for an Apple Music link, the fetched page for every
\* other link; None is returned only after both have been tried.
C15_MetadataThenOneFallback ==
    TitleDone =>
        /\ gtt.tried \in {<<"metadata">>, <<"metadata", "path">>,
                          <<"metadata", "page">>}
        /\ Len(gtt.tried) = 2 =>
              (gtt.tried[2] = "path" <=> Contains(SAppleCom, gtt.url))
        /\ gtt.result.none => Len(gtt.tried) = 2

C15_Witness ==
    /\ TitleDone
    /\ gtt.result.none
    /\ gtt.tried = <<"metadata", "path">>
    /\ link.base = "appleshort"
    /\ dm.pc = "done"

\* the host of the link cannot be reached: the metadata fetch and the page
\* fetch have both raised
HostUnreachable == {"metadata", "page"} \subseteq gtt.errors

\* C16: when the metadata fetch and the page fetch of a link of another
\* service both fail with an error, get_track_title_from_url returns None,
\* download_music returns None, and no download is attempted.
C16_UnreachableIsUnresolvable ==
    HostUnreachable =>
        /\ TitleDone /\ gtt.result = TitleNone
        /\ dm.pc \in {"title", "done"}
        /\ dm.pc = "done" => dm.result = NoStr
        /\ downloads = <<>>
        /\ files = {}

C16_Witness ==
    /\ HostUnreachable
    /\ dm.pc = "done"
    /\ dm.result = NoStr
    /\ gtt.tried = <<"metadata", "page">>

\* C17: a search term that comes from the URL path or from a page title has
\* at least 4 characters after trimming.
C17_DerivedTitleAtLeastFour ==
    (TitleDone /\ ~gtt.result.none /\ Len(gtt.tried) >= 2)
        => Len(Strip(gtt.result.text)) >= 4

(***************************************************************************)
(* Failures inside the search worker                                       *)
(***************************************************************************)
Searching == psq.pc \in {"api", "search", "after_search"}

\* C18: in process_search_query a strategy that fails (the API search, a
\* ytsearch attempt that raises or selects nothing) is followed by the next
\* strategy and sends nothing; a failure message is sent only after the
\* download has been tried, it is the last message, and the worker always
\* goes on to its end instead of being left by an exception.
C18_FailuresRecoveredLocally ==
    /\ [](/\ (Searching \/ psq.pc = "download") => sent = <<>>
          /\ \A i \in 1..Len(sent) :
                sent[i].text \in FailureTexts =>
                    /\ Len(downloads) = 1
                    /\ i = Len(sent)
                    /\ psq.pc \in {"remove", "finally", "done"})
    /\ [][Searching =>
            /\ psq'.pc \in {"search", "after_search", "download"}
            /\ sent' = sent]_vars

C18_Witness ==
    /\ psq.pc = "done"
    /\ psq.api_url = NoStr
    /\ Len(searched) = 2
    /\ ~searched[1].selected
    /\ searched[2].selected
    /\ Len(sent) = 1
    /\ sent[1].text = MsgNotFound

\* The worker is a thread of its own: once started it takes its next step
\* whenever every external call it waits for returns or raises.
SpecSearchLive == SpecSearch /\ WF_vars(NextSearch)

\* line 602, the message of the outer except clause
MsgSearchFailed == "Search failed. Please try again with a different query."

\* the messages that tell the chat how its search ended
TerminalTexts == {MsgEnjoy, MsgSearchFailed} \cup FailureTexts

\* the terminal messages sent to the chat of the search so far
TerminalSent ==
    { k \in 1..Len(sent) :
        sent[k].chat = psq.chat_id /\ sent[k].text \in TerminalTexts }

\* C32: every call of process_search_query ends, and it ends with exactly
\* one terminal message to the requesting chat ('Enjoy the music!',
\* 'Couldn't send the file', 'Couldn't find that song', 'Download failed' or
\* 'Search failed'): never none, never two.
C32_OneTerminalMessage ==
    /\ [](Cardinality(TerminalSent) <= 1)
    /\ [](psq.pc = "done" => Cardinality(TerminalSent) = 1)
    /\ (psq.pc # "idle") ~> (psq.pc = "done")

\* a search that found its file and could not send it
C32_Witness ==
    /\ psq.pc = "done"
    /\ Len(sent) = 2
    /\ sent[1].text = MsgFound
    /\ sent[2].text = MsgNotSent

(***************************************************************************)
(* main.py, main: the polling loop, the handlers it runs itself and the    *)
(* worker threads it starts.                                               *)
(***************************************************************************)
outside_loop ==
    <<ranker, psq, searched, downloads, urls, titles, direct, uploads>>

\* what a message can be, by the branch of lines 655-739 that takes it
Kinds == {"status", "playlist", "track", "text", "short"}

MsgStatus == "Bot Status"
MsgPlaylistDetected == "Playlist detected! Processing..."
MsgDownloading == "Downloading your track..."
MsgHereIs == "Here's your music!"
MsgNoTrack == "Couldn't download that track. Try a different link?"
MsgSearching == "Searching for"
MsgShort == "Send me a link or song name (at least 3 letters)!"
MsgPlaylistComplete == "Playlist complete!"

\* the texts the users send
Texts == {"status", "playlist", "track", "four", "three", "two"}

TextData ==
    ("status" :> <<"/", "s", "t", "a", "t", "u", "s">>)
    @@ ("playlist" :> <<"h", "t", "t", "p", "s", ":", "/", "/", "y", "o", "u", "t",
          "u", "b", "e", ".", "c", "o", "m", "/", "p", "l", "a", "y", "l",
          "i", "s", "t", "?", "l", "i", "s", "t", "=", "P", "L", "1">>)
    @@ ("track" :> <<"h", "t", "t", "p", "s", ":", "/", "/", "y", "o", "u", "t",
          "u", ".", "b", "e", "/", "d", "Q", "w", "4">>)
    @@ ("four" :> <<"a", "b", "c", "d">>)
    @@ ("three" :> <<"a", "b", "c">>)
    @@ ("two" :> <<"a", "b">>)

SSlash == <<"/">>

SHttp == <<"h", "t", "t", "p">>

SStatus == <<"/", "s", "t", "a", "t", "u", "s">>

\* lines 655-739: the branch that takes a text.  /start, /help and /clean
\* have branches of their own and are not among the texts sent here.
KindOf(text) ==
    IF text = SStatus THEN "status"
    ELSE IF IsPrefix(SHttp, text)
    THEN IF is_playlist(text) THEN "playlist" ELSE "track"
    ELSE IF ~IsPrefix(SSlash, text) /\ Len(Strip(text)) > 3 THEN "text"
    ELSE IF Len(Strip(text)) <= 3 /\ ~IsPrefix(SSlash, text) THEN "short"
    ELSE "unknown"

KindTable == [t \in Texts |-> KindOf(TextData[t])]

\* line 676: the number of chats whose flag is set
ActiveDownloads ==
    Cardinality({ c \in DOMAIN user_processes : user_processes[c] })

InitLoop == InitRank

\* a user sends a message; the server gives it the next update id
UserSends ==
    /\ Len(inbox) < MaxUpdates
    /\ \E c \in Chats, t \in Texts :
        inbox' = Append(inbox,
                    [update_id |-> Len(inbox) + 1, chat |-> c, text |-> t,
                     kind |-> KindTable[t]])
    /\ UNCHANGED <<globals, sent, files, loop, threads, outside_loop>>

\* line 451: the offset get_updates asks for, without the + 1
OffsetSameId(id) == id

\* line 451
Offset(id) == id + 1

\* the id recorded is that of the last update of the batch
RecordedIdLastOfBatch(batch) == batch[Len(batch)].update_id

\* line 646: the id recorded when an update is taken from the batch
RecordedId(batch) == Head(batch).update_id

\* lines 643 and 447-469: get_updates returns the updates from the offset
\* last_update_id + 1 on, or [] when the request fails; line 741 when the
\* batch is empty
LoopPoll ==
    /\ loop.pc = "poll"
    /\ \E ok \in BOOLEAN :
        LET batch == IF ok
                     THEN SelectSeq(inbox,
                            LAMBDA u : u.update_id >= Offset(last_update_id))
                     ELSE <<>>
        IN loop' = [loop EXCEPT !.pc = IF batch = <<>> THEN "poll" ELSE "batch",
                                !.batch = batch]
    /\ UNCHANGED <<globals, sent, inbox, files, threads, outside_loop>>

\* line 646: the update is taken from the batch
Taken(l) == [l EXCEPT !.handled = Append(@, Head(l.batch).update_id)]

\* what is left to do once the handler of the first update of the batch is
\* through; line 741 after the last one
NextInBatch(l) ==
    [l EXCEPT !.pc = IF Len(l.batch) > 1 THEN "batch" ELSE "poll",
              !.batch = Tail(l.batch),
              !.finished = @ \cup {Head(l.batch).update_id}]

\* lines 645-739, one update of the batch: a command, a short text, a text
\* search or a playlist link, all answered without waiting for a download
LoopDispatch ==
    /\ loop.pc = "batch"
    /\ LET u == Head(loop.batch)
       IN /\ last_update_id' = RecordedId(loop.batch)
          /\ \/ /\ u.kind = "status"
                /\ sent' = Append(sent, [chat |-> u.chat, text |-> MsgStatus,
                                         active |-> ActiveDownloads])
                /\ loop' = NextInBatch(Taken(loop))
                /\ UNCHANGED <<user_processes, threads>>
             \/ /\ u.kind = "short"
                /\ sent' = Send(sent, u.chat, MsgShort)
                /\ loop' = NextInBatch(Taken(loop))
                /\ UNCHANGED <<user_processes, threads>>
             \/ /\ u.kind = "text"
                /\ sent' = Send(sent, u.chat, MsgSearching)
                /\ threads' = threads \cup
                      {[id |-> u.update_id, chat |-> u.chat,
                        target |-> "process_search_query", pc |-> "start"]}
                /\ loop' = NextInBatch(Taken(loop))
                /\ UNCHANGED user_processes
             \/ /\ u.kind = "playlist"
                /\ user_processes' = DictSet(user_processes, u.chat, TRUE)
                /\ sent' = Send(sent, u.chat, MsgPlaylistDetected)
                /\ threads' = threads \cup
                      {[id |-> u.update_id, chat |-> u.chat,
                        target |-> "process_playlist", pc |-> "start"]}
                /\ loop' = [Taken(loop) EXCEPT !.pc = "url_end"]
             \/ /\ u.kind = "track"
                /\ user_processes' = DictSet(user_processes, u.chat, TRUE)
                /\ sent' = Send(sent, u.chat, MsgDownloading)
                /\ loop' = [Taken(loop) EXCEPT !.pc = "inline"]
                /\ UNCHANGED threads
    /\ UNCHANGED <<inbox, files, outside_loop>>

\* lines 705-720: download_music, called by the loop itself, returns a file
\* or None, and the loop answers
LoopInlineDone ==
    /\ loop.pc = "inline"
    /\ \E ok \in BOOLEAN :
        sent' = Send(sent, Head(loop.batch).chat,
                     IF ok THEN MsgHereIs ELSE MsgNoTrack)
    /\ loop' = [loop EXCEPT !.pc = "url_end"]
    /\ UNCHANGED <<globals, inbox, files, threads, outside_loop>>

\* line 722, the end of the branch of a link, playlist or single track
LoopEndUrl ==
    /\ loop.pc = "url_end"
    /\ user_processes' = DictSet(user_processes, Head(loop.batch).chat, FALSE)
    /\ loop' = NextInBatch(loop)
    /\ UNCHANGED <<last_update_id, sent, inbox, files, threads, outside_loop>>

\* the rest of the batch is dropped and the loop is in the handler of
\* line 746
Failed(l) ==
    [l EXCEPT !.pc = "backoff", !.batch = <<>>,
              !.raised = @ \cup {Head(l.batch).update_id},
              !.dropped = @ \cup { l.batch[k].update_id : k \in 2..Len(l.batch) }]

\* lines 646-739 and 746-747: the handler of an update raises an Exception
\* once the id of the update is recorded (the /status branch when a worker
\* adds a chat to user_processes while line 676 iterates over it, a thread
\* that cannot be started, send_document of line 710 when the file goes
\* away between its lines 413 and 417)
LoopRaise ==
    /\ \/ /\ loop.pc = "batch"
          /\ Head(loop.batch).kind \in {"status", "text"}
          /\ last_update_id' = RecordedId(loop.batch)
          /\ loop' = Failed(Taken(loop))
          /\ UNCHANGED user_processes
       \/ /\ loop.pc = "inline"
          /\ loop' = Failed(loop)
          /\ UNCHANGED globals
    /\ UNCHANGED <<sent, inbox, files, threads, outside_loop>>

\* line 748: time.sleep(5) is over and the loop polls again
LoopBackoffDone ==
    /\ loop.pc = "backoff"
    /\ loop' = [loop EXCEPT !.pc = "poll"]
    /\ UNCHANGED <<globals, sent, inbox, files, threads, outside_loop>>

\* KeyboardInterrupt in the main thread.  Inside the try of line 642 it is
\* caught at line 743, the loop is left and line 750 runs cleanup_files;
\* inside the handler of line 746 (the sleep of line 748) no except clause
\* covers it and it leaves main.  The workers are daemon threads and end
\* with the process.
LoopInterrupt ==
    /\ loop.pc \in {"poll", "batch", "inline", "url_end", "backoff"}
    /\ IF loop.pc = "backoff"
       THEN /\ loop' = [loop EXCEPT !.pc = "crashed", !.interrupted = TRUE]
            /\ UNCHANGED files
       ELSE /\ loop' = [loop EXCEPT !.pc = "stopped", !.interrupted = TRUE,
                                    !.exit_cleanups = @ + 1]
            /\ files' = {}
    /\ threads' = {}
    /\ UNCHANGED <<globals, sent, inbox, outside_loop>>

\* lines 183 and 521: the thread sets the flag of its chat
WorkerStart ==
    \E t \in threads :
        /\ t.pc = "start"
        /\ user_processes' = DictSet(user_processes, t.chat, TRUE)
        /\ threads' = (threads \ {t}) \cup {[t EXCEPT !.pc = "download"]}
        /\ UNCHANGED <<last_update_id, sent, inbox, files, loop, outside_loop>>

\* lines 202-245 and 562-601: the downloads of the thread end and it sends
\* its last message
WorkerDownloaded ==
    \E t \in threads :
        /\ t.pc = "download"
        /\ \E ok \in BOOLEAN :
            sent' = Send(sent, t.chat,
                         IF t.target = "process_playlist" THEN MsgPlaylistComplete
                         ELSE IF ok THEN MsgEnjoy ELSE MsgDownloadFailed)
        /\ threads' = (threads \ {t}) \cup {[t EXCEPT !.pc = "finally"]}
        /\ UNCHANGED <<globals, inbox, files, loop, outside_loop>>

\* lines 246-247 and 603-604: the finally clause, and the thread ends
WorkerFinally ==
    \E t \in threads :
        /\ t.pc = "finally"
        /\ user_processes' = DictSet(user_processes, t.chat, FALSE)
        /\ threads' = threads \ {t}
        /\ UNCHANGED <<last_update_id, sent, inbox, files, loop, outside_loop>>

NextLoop ==
    \/ UserSends \/ LoopPoll \/ LoopDispatch \/ LoopInlineDone \/ LoopEndUrl
    \/ LoopRaise \/ LoopBackoffDone \/ LoopInterrupt
    \/ WorkerStart \/ WorkerDownloaded \/ WorkerFinally

SpecLoop == InitLoop /\ [][NextLoop]_vars

\* a download is running, in a worker thread or in the loop itself
DownloadInProgress ==
    loop.pc = "inline" \/ \E t \in threads : t.pc = "download"

\* the loop is at get_updates or between two updates of a batch
LoopFree == loop.pc \in {"poll", "batch", "url_end"}

\* C19: every request that starts a download runs in a worker of its own,
\* so the polling loop is never the one that waits for a download: while a
\* download is in progress the loop can fetch and dispatch the next update.
C19_LoopNeverBlocked == DownloadInProgress => LoopFree

\* a text that is neither a command nor a link
FreeText(t) == ~IsPrefix(SSlash, t) /\ ~IsPrefix(SHttp, t)

\* the loop takes an update from the batch and its handler does not raise
Dispatches ==
    /\ loop.pc = "batch"
    /\ loop'.handled # loop.handled
    /\ loop'.pc # "backoff"

\* C23: a free text (not starting with '/' or 'http') whose trimmed length
\* is at least 3 is accepted as a song search: the search is announced and
\* its worker started; only a shorter text is answered with "Send me a link
\* or song name (at least 3 letters)!" and starts no search.
C23_ThreeLettersAccepted ==
    [][(Dispatches /\ FreeText(TextData[Head(loop.batch).text])) =>
         LET u == Head(loop.batch)
         IN IF Len(Strip(TextData[u.text])) >= 3
            THEN /\ sent' = Send(sent, u.chat, MsgSearching)
                 /\ \E t \in threads' \ threads :
                        t.target = "process_search_query"
            ELSE /\ sent' = Send(sent, u.chat, MsgShort)
                 /\ threads' = threads]_vars

\* the chats that have a worker past the first line of its target and
\* before its finally clause
ChatsWithWorker == { t.chat : t \in { w \in threads : w.pc = "download" } }

\* C25: while a worker started for chat c is running, user_processes[c] is
\* True, so the 'Active downloads' number of /status is never smaller than
\* the number of chats that have a running worker.
C25_FlagTracksWorkers ==
    /\ \A c \in ChatsWithWorker :
         c \in DOMAIN user_processes /\ user_processes[c]
    /\ ActiveDownloads >= Cardinality(ChatsWithWorker)

\* the ids of the updates in a sequence
Ids(us) == { us[k].update_id : k \in 1..Len(us) }

\* a poll that returns a batch
Fetches == loop.pc = "poll" /\ loop'.pc = "batch"

\* no id was taken twice, and the ids were taken in increasing order
TakenOnce ==
    \A i, j \in 1..Len(loop.handled) :
        i < j => loop.handled[i] < loop.handled[j]

\* C28: the polling loop handles every update at most once: every batch
\* starts at last_update_id + 1, last_update_id never decreases, and no
\* update id is taken from a batch twice, over any sequence of polls.
C28_AtMostOnce ==
    /\ []TakenOnce
    /\ [][last_update_id' >= last_update_id]_vars
    /\ [][Fetches => \A id \in Ids(loop'.batch) : id >= last_update_id + 1]_vars

\* two updates were handled, by a dispatch each, and none raised
C28_Witness ==
    /\ loop.handled = <<1, 2>>
    /\ loop.finished = {1, 2}
    /\ last_update_id = 2

\* between two batches every update taken so far has been handled to the
\* end, but for those whose handler raised
OnlyRaisedUnfinished ==
    loop.pc \in {"poll", "backoff"} =>
        /\ Ids(inbox) \cap 1..last_update_id = loop.finished \cup loop.raised
        /\ loop.finished \cap loop.raised = {}

\* C29: no update is lost because the handler of another one raised: the
\* updates that were behind it in the batch are fetched again by the next
\* poll and dispatched, the update whose handler raised is the only one not
\* handled to the end, and it is not taken again, its id being recorded
\* before its handler ran.
C29_NoUpdateLost ==
    /\ []OnlyRaisedUnfinished
    /\ []TakenOnce
    /\ [][Fetches => Ids(loop'.batch) =
                        Ids(inbox) \ { loop.handled[k] :
                                         k \in 1..Len(loop.handled) }]_vars

\* the handler of the first update of a batch of two raised, and the second
\* update has been handled since
C29_Witness ==
    /\ loop.raised = {1}
    /\ loop.dropped = {2}
    /\ loop.finished = {2}

\* the loop of main is over
LoopOver == loop.pc \in {"stopped", "crashed"}

\* C30: the polling loop never stops because of an error; it ends only on
\* KeyboardInterrupt, and cleanup_files is then run once.
C30_EndsOnlyOnInterruptAndCleans ==
    LoopOver => loop.interrupted /\ loop.exit_cleanups = 1

(***************************************************************************)
(* direct_bot.py, main and download_and_send_playlist: one thread polls,   *)
(* dispatches and downloads.  user_processes maps a chat to True, False or *)
(* a mode; the values are written here as "True", "False" and the mode.    *)
(***************************************************************************)
outside_direct ==
    <<ranker, psq, searched, urls, titles, loop, threads, uploads>>

Modes == {"search_mode", "single_mode", "playlist_mode"}

\* `if user_processes[chat_id]:`
Set(c) == c \in DOMAIN user_processes /\ user_processes[c] # "False"

\* "song_name" is a text of more than 3 letters that is neither a command
\* nor a link
DirectKinds ==
    {"/stop", "/single", "/playlist", "playlist_link", "track_link",
     "/search", "/exit", "song_name"}

MsgSearchMode == "Search Mode Active!"
\* line 579: user_processes[chat_id].replace("_mode", "")
ModeName(mode) ==
    CASE mode = "search_mode" -> "search"
      [] mode = "single_mode" -> "single"
      [] mode = "playlist_mode" -> "playlist"
      [] OTHER -> mode

MsgExited(name) == "Exited " \o name \o " mode! Back to normal mode"
MsgNoMode == "You're not in any special mode!"
MsgInSingleMode == "You're in single track mode!"
MsgInPlaylistMode == "You're in playlist mode!"
MsgThatsASingle == "That's a single track!"
MsgOnIt == "On it! Getting that track for you!"
MsgHeresMusic == "Here's your music!"
MsgEnjoyVibes == "Enjoy the vibes!"
MsgOops == "Oops! Couldn't send that."
MsgNoSong == "Hmm, couldn't find that song!"
MsgPerfect == "Perfect! Searching for"
MsgSingleMode == "Single Track Mode!"
MsgPlaylistMode == "Playlist Mode!"
MsgModeCancelled == "Mode cancelled!"
MsgStopped == "Download stopped!"
MsgNothingToStop == "Nothing to stop!"
MsgThatsAPlaylist == "That's a playlist!"
MsgAwesomePlaylist == "Awesome playlist!"
MsgPlaylistError == "Playlist error"
MsgFoundSongs == "Sweet! Found songs."
MsgGettingSong == "Getting song"
MsgTrackError == "Error"
MsgSending == "Sending"
MsgTrackDone == "done!"
MsgTrackNotSent == "Couldn't send"
MsgAllDone == "All done!"
MsgPlaylistFailed == "Hmm, playlist didn't work!"

\* what extract_info gives for a playlist: an exception, an info without
\* 'entries', or entries, each with a url or with none
PlaylistOutcomes ==
    {[kind |-> "raise", entries |-> <<>>],
     [kind |-> "no_entries", entries |-> <<>>]} \cup
    { [kind |-> "entries", entries |-> e] :
        e \in UNION { [1..n -> BOOLEAN] : n \in 0..MaxTracks } }

InitDirect == InitRank

DirectUserSends ==
    /\ Len(inbox) < MaxUpdates
    /\ \E c \in Chats, k \in DirectKinds :
        inbox' = Append(inbox,
                    [update_id |-> Len(inbox) + 1, chat |-> c, kind |-> k])
    /\ UNCHANGED <<globals, sent, files, downloads, direct, outside_direct>>

\* direct_bot.py lines 546 and 490-508
DirectPoll ==
    /\ direct.pc = "poll"
    /\ \E ok \in BOOLEAN :
        LET batch == IF ok
                     THEN SelectSeq(inbox, LAMBDA u : u.update_id > last_update_id)
                     ELSE <<>>
        IN direct' = [direct EXCEPT !.pc = IF batch = <<>> THEN "poll" ELSE "batch",
                                    !.batch = batch]
    /\ UNCHANGED <<globals, sent, inbox, files, downloads, outside_direct>>

DirectNext(d) ==
    [d EXCEPT !.pc = IF Len(d.batch) > 1 THEN "batch" ELSE "poll",
              !.batch = Tail(d.batch), !.entries = <<>>, !.i = 0]

\* lines 585-596: /stop
StopStep(flags, c) ==
    IF c \in DOMAIN flags /\ flags[c] \in Modes
    THEN [flags |-> DictSet(flags, c, "False"), text |-> MsgModeCancelled]
    ELSE IF c \in DOMAIN flags /\ flags[c] # "False"
    THEN [flags |-> DictSet(flags, c, "False"), text |-> MsgStopped]
    ELSE [flags |-> flags, text |-> MsgNothingToStop]

\* /exit clears whatever the entry of the chat is
ExitStepClearsAny(flags, c) ==
    [flags |-> DictSet(flags, c, "False"),
     text |-> IF c \in DOMAIN flags /\ flags[c] \in Modes
              THEN MsgExited(ModeName(flags[c])) ELSE MsgNoMode]

\* lines 577-584: /exit
ExitStep(flags, c) ==
    IF c \in DOMAIN flags /\ flags[c] \in Modes
    THEN [flags |-> DictSet(flags, c, "False"),
          text |-> MsgExited(ModeName(flags[c]))]
    ELSE [flags |-> flags, text |-> MsgNoMode]

\* the links are handled whatever the mode is
RejectsNoLink(mode, kind) ==
    mode \in {"single_mode", "playlist_mode"} /\ kind = "song_name"

\* lines 602-611 and 649-654: the message does not fit the mode of the chat
Rejects(mode, kind) ==
    \/ mode = "single_mode" /\ kind = "playlist_link"
    \/ mode = "playlist_mode" /\ kind = "track_link"
    \/ mode \in {"single_mode", "playlist_mode"} /\ kind = "song_name"

\* lines 604, 609, 651 and 653: the hint sent with the rejection
Hint(mode, kind) ==
    CASE kind = "playlist_link" -> MsgThatsAPlaylist
      [] kind = "track_link" -> MsgThatsASingle
      [] mode = "single_mode" -> MsgInSingleMode
      [] OTHER -> MsgInPlaylistMode

\* lines 548-661: one update of the batch
DirectDispatch ==
    /\ direct.pc = "batch"
    /\ LET u == Head(direct.batch)
           mode == IF u.chat \in DOMAIN user_processes
                   THEN user_processes[u.chat] ELSE "None"
       IN /\ last_update_id' = u.update_id
          /\ \/ /\ u.kind = "/stop"
                /\ user_processes' = StopStep(user_processes, u.chat).flags
                /\ sent' = Send(sent, u.chat, StopStep(user_processes, u.chat).text)
                /\ direct' = DirectNext(direct)
             \/ /\ u.kind = "/search"
                /\ user_processes' = DictSet(user_processes, u.chat, "search_mode")
                /\ sent' = Send(sent, u.chat, MsgSearchMode)
                /\ direct' = DirectNext(direct)
             \/ /\ u.kind = "/exit"
                /\ user_processes' = ExitStep(user_processes, u.chat).flags
                /\ sent' = Send(sent, u.chat, ExitStep(user_processes, u.chat).text)
                /\ direct' = DirectNext(direct)
             \/ /\ Rejects(mode, u.kind)
                /\ sent' = Send(sent, u.chat, Hint(mode, u.kind))
                /\ direct' = DirectNext(direct)
                /\ UNCHANGED user_processes
             \/ /\ u.kind = "song_name"
                /\ ~Rejects(mode, u.kind)
                /\ user_processes' = DictSet(user_processes, u.chat, "True")
                /\ sent' = IF mode = "search_mode"
                           THEN Send(Send(sent, u.chat, MsgPerfect),
                                     u.chat, MsgSearching)
                           ELSE Send(sent, u.chat, MsgSearching)
                /\ direct' = [direct EXCEPT !.pc = "search"]
             \/ /\ u.kind = "/single"
                /\ user_processes' = DictSet(user_processes, u.chat, "single_mode")
                /\ sent' = Send(sent, u.chat, MsgSingleMode)
                /\ direct' = DirectNext(direct)
             \/ /\ u.kind = "/playlist"
                /\ user_processes' = DictSet(user_processes, u.chat, "playlist_mode")
                /\ sent' = Send(sent, u.chat, MsgPlaylistMode)
                /\ direct' = DirectNext(direct)
             \/ /\ u.kind = "track_link"
                /\ ~Rejects(mode, u.kind)
                /\ user_processes' = DictSet(user_processes, u.chat, "True")
                /\ sent' = Send(sent, u.chat, MsgOnIt)
                /\ direct' = [direct EXCEPT !.pc = "link"]
             \/ /\ u.kind = "playlist_link"
                /\ ~Rejects(mode, u.kind)
                /\ user_processes' = DictSet(user_processes, u.chat, "True")
                /\ sent' = Send(sent, u.chat, MsgAwesomePlaylist)
                /\ direct' = [direct EXCEPT !.pc = "extract"]
    /\ UNCHANGED <<inbox, files, downloads, outside_direct>>

\* lines 392-402: the entries of the playlist
DirectExtract ==
    /\ direct.pc = "extract"
    /\ \E o \in PlaylistOutcomes :
        IF o.kind = "raise"
        THEN /\ sent' = Send(sent, Head(direct.batch).chat, MsgPlaylistError)
             /\ direct' = [direct EXCEPT !.pc = "playlist_end", !.success = FALSE]
        ELSE IF o.kind = "no_entries"
        THEN /\ direct' = [direct EXCEPT !.pc = "playlist_end", !.success = FALSE]
             /\ UNCHANGED sent
        ELSE /\ sent' = Send(sent, Head(direct.batch).chat, MsgFoundSongs)
             /\ direct' = [direct EXCEPT !.pc = "track", !.entries = o.entries,
                                         !.i = 1]
    /\ UNCHANGED <<globals, inbox, files, downloads, outside_direct>>

\* lines 407-424 and 454-455: the head of the loop over the entries: the
\* stop check, the entry without a url, the files cleared; or the loop is
\* over
DirectTrack ==
    /\ direct.pc = "track"
    /\ LET c == Head(direct.batch).chat
       IN IF direct.i > Len(direct.entries)
          THEN /\ sent' = Send(sent, c, MsgAllDone)
               /\ direct' = [direct EXCEPT !.pc = "playlist_end", !.success = TRUE]
               /\ UNCHANGED files
          ELSE IF c \in DOMAIN user_processes /\ user_processes[c] = "False"
          THEN /\ sent' = Send(sent, c, MsgStopped)
               /\ direct' = [direct EXCEPT !.pc = "playlist_end", !.success = FALSE]
               /\ UNCHANGED files
          ELSE IF ~direct.entries[direct.i]
          THEN /\ direct' = [direct EXCEPT !.i = @ + 1]
               /\ UNCHANGED <<sent, files>>
          ELSE /\ sent' = Send(sent, c, MsgGettingSong)
               /\ files' = {}
               /\ direct' = [direct EXCEPT !.pc = "track_download"]
    /\ UNCHANGED <<globals, inbox, downloads, outside_direct>>

\* lines 426-452: the download of one track, its upload and its removal
DirectTrackDownload ==
    /\ direct.pc = "track_download"
    /\ downloads' = Append(downloads, [kind |-> "track", i |-> direct.i])
    /\ direct' = [direct EXCEPT !.pc = "track", !.i = @ + 1]
    /\ LET c == Head(direct.batch).chat
       IN \/ /\ sent' = Send(sent, c, MsgTrackError)
             /\ UNCHANGED files
          \/ /\ UNCHANGED <<sent, files>>
          \/ \E ok \in BOOLEAN :
             /\ sent' = Send(Send(sent, c, MsgSending),
                             c, IF ok THEN MsgTrackDone ELSE MsgTrackNotSent)
             /\ UNCHANGED files
    /\ UNCHANGED <<globals, inbox, outside_direct>>

\* lines 628-631 and 644: back in main
DirectPlaylistEnd ==
    /\ direct.pc = "playlist_end"
    /\ sent' = IF direct.success THEN sent
               ELSE Send(sent, Head(direct.batch).chat, MsgPlaylistFailed)
    /\ user_processes' = DictSet(user_processes, Head(direct.batch).chat, "False")
    /\ direct' = [DirectNext(direct) EXCEPT !.success = FALSE]
    /\ UNCHANGED <<last_update_id, inbox, files, downloads, outside_direct>>

\* lines 663-730: the files are cleared, the song is searched, downloaded
\* and sent by the loop itself, and line 730 clears the flag
DirectSearchEnd ==
    /\ direct.pc = "search"
    /\ downloads' = Append(downloads, [kind |-> "search", i |-> 0])
    /\ files' = {}
    /\ \E text \in {MsgEnjoy, MsgNotSent, MsgNotFound, MsgDownloadFailed} :
        sent' = Send(sent, Head(direct.batch).chat, text)
    /\ user_processes' = DictSet(user_processes, Head(direct.batch).chat, "False")
    /\ direct' = DirectNext(direct)
    /\ UNCHANGED <<last_update_id, inbox, outside_direct>>

\* lines 626-644: the track of a link is downloaded and sent by the loop
\* itself.  download_music clears the files first (lines 140-146); when the
\* file is gone before os.path.getsize or os.remove (lines 633 and 640, the
\* cleanup thread of lines 60-69 runs beside the loop), the exception ends
\* the batch at line 746 and line 644 is not reached.
DirectLinkEnd ==
    /\ direct.pc = "link"
    /\ downloads' = Append(downloads, [kind |-> "link", i |-> 0])
    /\ files' = {}
    /\ LET c == Head(direct.batch).chat
       IN \/ /\ sent' = Send(sent, c, MsgNoSong)
             /\ user_processes' = DictSet(user_processes, c, "False")
             /\ direct' = DirectNext(direct)
          \/ \E ok \in BOOLEAN :
             /\ sent' = Send(Send(sent, c, MsgHeresMusic),
                             c, IF ok THEN MsgEnjoyVibes ELSE MsgOops)
             /\ user_processes' = DictSet(user_processes, c, "False")
             /\ direct' = DirectNext(direct)
          \/ \E told \in BOOLEAN :
             /\ sent' = IF told THEN Send(sent, c, MsgHeresMusic) ELSE sent
             /\ direct' = [direct EXCEPT !.pc = "poll", !.batch = <<>>]
             /\ UNCHANGED user_processes
    /\ UNCHANGED <<last_update_id, inbox, outside_direct>>

NextDirect ==
    \/ DirectUserSends \/ DirectPoll \/ DirectDispatch \/ DirectExtract
    \/ DirectTrack \/ DirectTrackDownload \/ DirectPlaylistEnd
    \/ DirectSearchEnd \/ DirectLinkEnd

SpecDirect == InitDirect /\ [][NextDirect]_vars

\* a playlist is being downloaded for chat c
PlaylistRunning(c) ==
    /\ direct.pc \in {"extract", "track", "track_download"}
    /\ Head(direct.batch).chat = c

\* a user of chat c has sent /stop since the playlist of that chat began:
\* the server holds it, it was not in the batch the loop is working on
StopSent(c) ==
    \E k \in 1..Len(inbox) :
        /\ inbox[k].kind = "/stop"
        /\ inbox[k].chat = c
        /\ inbox[k].update_id > direct.batch[Len(direct.batch)].update_id

\* C20: a /stop sent for a chat while its playlist is being downloaded stops
\* the playlist: the flag of the chat is cleared, and the loop over the
\* tracks sees it before the next track, so no further track is downloaded.
C20_StopEndsPlaylist ==
    [][\A c \in Chats :
         (PlaylistRunning(c) /\ StopSent(c) /\ direct.pc = "track")
             => direct'.pc # "track_download"]_vars

\* the loop handles a mode command of chat c: /exit, /stop, /search, /single
\* or /playlist
ModeCommandFor(c) ==
    /\ direct.pc = "batch"
    /\ Head(direct.batch).chat = c
    /\ Head(direct.batch).kind \in
          {"/exit", "/stop", "/search", "/single", "/playlist"}

InSearchMode(flags, c) == c \in DOMAIN flags /\ flags[c] = "search_mode"

\* C24: in direct_bot, once /search has put a chat into search mode, the
\* chat stays in search mode across its song-name searches; a chat leaves
\* search mode only when /exit, /stop or another mode command of that chat
\* is handled.
C24_SearchModePersists ==
    [][\A c \in Chats :
         (InSearchMode(user_processes, c) /\ ~InSearchMode(user_processes', c))
             => ModeCommandFor(c)]_vars

(***************************************************************************)
(* process_playlist, main.py lines 180-247, with extract_spotify_playlist, *)
(* lines 123-178: the track list, then one step per track.                 *)
(***************************************************************************)
outside_playlist ==
    <<last_update_id, ranker, searched, downloads, sent, urls, titles,
      dispatch, direct, sd, jobs>>

\* lines 156 and 194: the slice [:20]
TrackLimit == 20

\* the list is used as it was extracted
KeepAll(list) == list

\* lines 156 and 194: tracks[:20]
Truncate(list) ==
    SubSeq(list, 1, IF Len(list) < TrackLimit THEN Len(list)
                      ELSE TrackLimit)

\* lines 206-239 for one track: the file was sent, send_document returned
\* False, the download left no mp3, or an exception was raised in the try
TrackOutcomes == {"sent", "send_failed", "no_file", "error"}

\* lines 185-202: the titles the extractor found, cut to the first 20.  An
\* exception of the YouTube extraction gives no title (line 196); the
\* Spotify extraction catches its own and gives the page title or nothing
\* (lines 158-178).
PpExtractStep(f, found) ==
    LET tracks == Truncate([k \in 1..found |-> k])
    IN IF tracks = <<>>
       THEN [f EXCEPT !.pc = "finally", !.extracted = found]
       ELSE [f EXCEPT !.pc = "track", !.extracted = found, !.tracks = tracks,
                      !.i = 1, !.reported = @ \cup {Len(tracks)}]

\* lines 205-239 with the loop left at the first exception
PpTrackStepStopsOnError(f, outcome) ==
    [f EXCEPT !.attempted = Append(@, f.tracks[f.i]),
              !.reported = @ \cup {Len(f.tracks)},
              !.sent_count = IF outcome = "sent" THEN @ + 1 ELSE @,
              !.delivered = IF outcome = "sent" THEN @ + 1 ELSE @,
              !.i = IF outcome = "error" THEN Len(f.tracks) + 1 ELSE @ + 1]

\* lines 205-239: one iteration of `for i, track in enumerate(tracks, 1)`
PpTrackStep(f, outcome) ==
    [f EXCEPT !.attempted = Append(@, f.tracks[f.i]),
              !.reported = @ \cup {Len(f.tracks)},
              !.sent_count = IF outcome = "sent" THEN @ + 1 ELSE @,
              !.delivered = IF outcome = "sent" THEN @ + 1 ELSE @,
              !.i = @ + 1]

InitPlaylist == InitRank

\* lines 180-183: the thread starts and sets the flag of its chat
PpStart ==
    /\ pp.pc = "idle"
    /\ \E c \in Chats, spotify \in BOOLEAN :
        /\ pp' = [pp EXCEPT !.pc = "extract", !.chat_id = c,
                            !.spotify = spotify]
        /\ user_processes' = DictSet(user_processes, c, TRUE)
    /\ UNCHANGED <<psq, files, outside_playlist>>

\* lines 185-202
PpExtract ==
    /\ pp.pc = "extract"
    /\ \E found \in 0..MaxPlaylist : pp' = PpExtractStep(pp, found)
    /\ UNCHANGED <<user_processes, psq, files, outside_playlist>>

\* lines 185-202 for a short playlist
PpExtractShort ==
    /\ pp.pc = "extract"
    /\ \E found \in 0..MaxTracks : pp' = PpExtractStep(pp, found)
    /\ UNCHANGED <<user_processes, psq, files, outside_playlist>>

\* lines 205-239: cleanup_files, the search, the download, the upload and
\* the removal of the file of one track
PpTrack ==
    /\ pp.pc = "track"
    /\ pp.i <= Len(pp.tracks)
    /\ \E outcome \in TrackOutcomes : pp' = PpTrackStep(pp, outcome)
    /\ files' = {}
    /\ UNCHANGED <<user_processes, psq, outside_playlist>>

\* line 241: "Playlist complete! Sent k/n tracks."
PpComplete ==
    /\ pp.pc = "track"
    /\ pp.i > Len(pp.tracks)
    /\ pp' = [pp EXCEPT !.pc = "finally",
                        !.reported = @ \cup {Len(pp.tracks)},
                        !.final = [sent |-> TRUE, k |-> pp.sent_count,
                                   n |-> Len(pp.tracks)]]
    /\ UNCHANGED <<user_processes, psq, files, outside_playlist>>

\* lines 246-247
PpFinally ==
    /\ pp.pc = "finally"
    /\ user_processes' = DictSet(user_processes, pp.chat_id, FALSE)
    /\ pp' = [pp EXCEPT !.pc = "done"]
    /\ UNCHANGED <<psq, files, outside_playlist>>

NextPlaylist == PpStart \/ PpExtract \/ PpTrack \/ PpComplete \/ PpFinally

SpecPlaylist == InitPlaylist /\ [][NextPlaylist]_vars

\* C33: process_playlist never processes more than 20 tracks: whatever the
\* length of the playlist, the tracks attempted are among the first 20
\* extracted, and the totals named in the progress messages and in the
\* final message are at most 20.
C33_AtMostTwentyTracks ==
    /\ Len(pp.tracks) <= TrackLimit
    /\ Len(pp.attempted) <= TrackLimit
    /\ \A k \in 1..Len(pp.attempted) : pp.attempted[k] \in 1..TrackLimit
    /\ \A n \in pp.reported : n <= TrackLimit
    /\ pp.final.n <= TrackLimit

\* a playlist of 21 titles, of which 20 were attempted
C33_Witness ==
    /\ pp.pc = "done"
    /\ pp.extracted = TrackLimit + 1
    /\ Len(pp.attempted) = TrackLimit
    /\ pp.final.sent /\ pp.final.n = TrackLimit

\* C34: process_playlist attempts every track of the truncated list exactly
\* once, in playlist order, whatever happened to the tracks before it, and
\* the k of "Playlist complete! Sent k/n" is the number of tracks whose
\* send_document call returned True, with 0 <= k <= n.
C34_EveryTrackOnceInOrder ==
    /\ pp.attempted = SubSeq(pp.tracks, 1, Len(pp.attempted))
    /\ pp.final.sent =>
         /\ pp.attempted = pp.tracks
         /\ pp.final.n = Len(pp.tracks)
         /\ pp.final.k = pp.delivered
         /\ pp.final.k \in 0..pp.final.n

\* a playlist of three tracks with one of them sent
C34_Witness ==
    /\ pp.pc = "done"
    /\ pp.attempted = <<1, 2, 3>>
    /\ pp.final = [sent |-> TRUE, k |-> 1, n |-> 3]

(***************************************************************************)
(* The two workers of main.py side by side: one process_search_query and   *)
(* one process_playlist thread, for the same chat or for different chats.  *)
(***************************************************************************)
NextWorkers ==
    \/ NextSearch
    \/ PpStart \/ PpExtractShort \/ PpTrack \/ PpComplete \/ PpFinally

SpecWorkers == InitRank /\ [][NextWorkers]_vars

\* the entries of the chats other than c are the same before and after
OthersKept(c) ==
    \A x \in Chats \ {c} :
        /\ x \in DOMAIN user_processes' <=> x \in DOMAIN user_processes
        /\ x \in DOMAIN user_processes => user_processes'[x] = user_processes[x]

\* C31: whenever process_search_query or process_playlist finishes for chat
\* c (normal completion, the early return on an empty track list, or an
\* exception), user_processes[c] is False on exit, and no step of the worker
\* changes the entry of another chat.
C31_FlagClearedOnExit ==
    [][ /\ (psq' # psq) => OthersKept(psq'.chat_id)
        /\ (pp' # pp) => OthersKept(pp'.chat_id)
        /\ (psq.pc # "done" /\ psq'.pc = "done")
              => /\ psq.chat_id \in DOMAIN user_processes'
                 /\ user_processes'[psq.chat_id] = FALSE
        /\ (pp.pc # "done" /\ pp'.pc = "done")
              => /\ pp.chat_id \in DOMAIN user_processes'
                 /\ user_processes'[pp.chat_id] = FALSE ]_vars

\* the search of c1 has ended while the playlist of c2 is being processed
C31_Witness ==
    /\ psq.pc = "done" /\ psq.chat_id = "c1"
    /\ pp.pc = "track" /\ pp.chat_id = "c2"
    /\ DOMAIN user_processes = Chats
    /\ user_processes["c1"] = FALSE
    /\ user_processes["c2"] = TRUE

(***************************************************************************)
(* direct_bot.py: the modes of a chat                                      *)
(***************************************************************************)
\* lines 392-402 for a playlist of at most one entry
DirectExtractShort ==
    /\ direct.pc = "extract"
    /\ \E o \in { p \in PlaylistOutcomes : Len(p.entries) <= 1 } :
        IF o.kind = "raise"
        THEN /\ sent' = Send(sent, Head(direct.batch).chat, MsgPlaylistError)
             /\ direct' = [direct EXCEPT !.pc = "playlist_end", !.success = FALSE]
        ELSE IF o.kind = "no_entries"
        THEN /\ direct' = [direct EXCEPT !.pc = "playlist_end", !.success = FALSE]
             /\ UNCHANGED sent
        ELSE /\ sent' = Send(sent, Head(direct.batch).chat, MsgFoundSongs)
             /\ direct' = [direct EXCEPT !.pc = "track", !.entries = o.entries,
                                         !.i = 1]
    /\ UNCHANGED <<globals, inbox, files, downloads, outside_direct>>

\* the loop of direct_bot with short playlists
NextModes ==
    \/ DirectUserSends \/ DirectPoll \/ DirectDispatch \/ DirectExtractShort
    \/ DirectTrack \/ DirectTrackDownload \/ DirectPlaylistEnd
    \/ DirectSearchEnd \/ DirectLinkEnd

SpecModes == InitDirect /\ [][NextModes]_vars

\* the loop of direct_bot handles the update at the head of its batch
Handles == direct.pc = "batch" /\ direct' # direct

\* the message this step has sent
Reply == sent'[Len(sent')]

\* this step has sent one message, to chat c, and nothing else
RepliesOnce(c) ==
    /\ Len(sent') = Len(sent) + 1
    /\ SubSeq(sent', 1, Len(sent)) = sent
    /\ Reply.chat = c

\* C35: in direct_bot, /exit returns a chat that is in search, single or
\* playlist mode to the idle state (its entry becomes False) and names the
\* mode exited in the reply; when the chat is in no mode (no entry, False, or
\* True) /exit leaves user_processes unchanged; in both cases no other
\* chat's entry changes.
C35_ExitLeavesMode ==
    [][\A c \in Chats :
         (Handles /\ Head(direct.batch).chat = c
                  /\ Head(direct.batch).kind = "/exit")
             => /\ OthersKept(c)
                /\ RepliesOnce(c)
                /\ IF c \in DOMAIN user_processes /\ user_processes[c] \in Modes
                   THEN /\ c \in DOMAIN user_processes'
                        /\ user_processes'[c] = "False"
                        /\ \/ /\ user_processes[c] = "search_mode"
                              /\ Reply.text = MsgExited("search")
                           \/ /\ user_processes[c] = "single_mode"
                              /\ Reply.text = MsgExited("single")
                           \/ /\ user_processes[c] = "playlist_mode"
                              /\ Reply.text = MsgExited("playlist")
                   ELSE /\ user_processes' = user_processes
                        /\ Reply.text = MsgNoMode]_vars

\* c1 has left single mode
C35_Witness ==
    /\ "c1" \in DOMAIN user_processes
    /\ user_processes["c1"] = "False"
    /\ direct.pc = "poll"
    /\ Len(sent) = 2
    /\ sent[2] = [chat |-> "c1", text |-> MsgExited("single")]

\* the update at the head of the batch does not fit the mode of its chat
Misfit ==
    LET u == Head(direct.batch)
        mode == IF u.chat \in DOMAIN user_processes
                THEN user_processes[u.chat] ELSE "None"
    IN \/ mode = "single_mode" /\ u.kind \in {"playlist_link", "song_name"}
       \/ mode = "playlist_mode" /\ u.kind \in {"track_link", "song_name"}

\* C36: in direct_bot a message that does not fit the mode of the chat (a
\* playlist link in single mode, a single-track link in playlist mode, a
\* song name in single or playlist mode) produces only a hint message,
\* starts no download and leaves user_processes as it is.
C36_MisfitOnlyHinted ==
    [][(Handles /\ Misfit)
          => /\ user_processes' = user_processes
             /\ RepliesOnce(Head(direct.batch).chat)
             /\ Reply.text \in {MsgThatsAPlaylist, MsgThatsASingle,
                                MsgInSingleMode, MsgInPlaylistMode}
             /\ downloads' = downloads
             /\ files' = files
             /\ direct'.pc \in {"batch", "poll"}]_vars

\* a single-track link was sent in playlist mode
C36_Witness ==
    /\ "c1" \in DOMAIN user_processes
    /\ user_processes["c1"] = "playlist_mode"
    /\ downloads = <<>>
    /\ direct.pc = "poll"
    /\ Len(sent) = 2
    /\ sent[2] = [chat |-> "c1", text |-> MsgThatsASingle]

(***************************************************************************)
(* send_document: the checks on the file, then the loop of upload attempts *)
(* with its sleeps, step by step.                                          *)
(***************************************************************************)
outside_send ==
    <<globals, ranker, psq, searched, downloads, sent, urls, titles, dispatch,
      direct, jobs, pp>>

\* line 405: retries=3, the default no caller overrides
DefaultRetries == 3

\* the paths handed to send_document; the last one is no plain file name
SendPaths == FileNames \cup {"../a.mp3"}

\* line 409
PlainName(path) == path \in FileNames

\* what requests.post and raise_for_status do in one attempt: the upload is
\* accepted, a RequestException, or another exception
AttemptOutcomes == {"ok", "request_error", "other_error"}

\* lines 405-420: the call and the three checks made before any attempt
SdCallStep(c, path, retries, exists, too_large) ==
    LET f == [IdleSend EXCEPT !.chat_id = c, !.file_path = path,
                              !.retries = retries]
    IN IF ~PlainName(path) \/ ~exists \/ too_large
       THEN [f EXCEPT !.pc = "done", !.result = "False"]
       ELSE [f EXCEPT !.pc = "loop"]

\* lines 422-442 with a sleep after every failed attempt, the last included
SdAttemptStepAlwaysSleeps(f, outcome) ==
    LET g == [f EXCEPT !.tries = Append(@, outcome)]
    IN IF outcome = "ok"
       THEN [g EXCEPT !.pc = "done", !.result = "True"]
       ELSE IF outcome = "other_error"
       THEN [g EXCEPT !.pc = "done", !.result = "False"]
       ELSE [g EXCEPT !.slept = Append(@, 2 ^ f.attempt),
                      !.attempt = @ + 1]

\* lines 422-442: one iteration of `for attempt in range(retries)`
SdAttemptStep(f, outcome) ==
    LET g == [f EXCEPT !.tries = Append(@, outcome)]
    IN IF outcome = "ok"
       THEN [g EXCEPT !.pc = "done", !.result = "True"]
       ELSE IF outcome = "other_error"
       THEN [g EXCEPT !.pc = "done", !.result = "False"]
       ELSE [g EXCEPT !.slept = IF f.attempt < f.retries - 1
                                THEN Append(@, 2 ^ f.attempt) ELSE @,
                      !.attempt = @ + 1]

InitSend == InitRank

\* a download leaves a file in the working directory, or a file goes away
SdFileChange ==
    /\ sd.pc \in {"idle", "done"}
    /\ \E f \in FileNames :
        files' = IF f \in files THEN files \ {f} ELSE files \cup {f}
    /\ UNCHANGED <<sd, outside_send>>

\* lines 405-420
SdCall ==
    /\ sd.pc \in {"idle", "done"}
    /\ \E c \in Chats, path \in SendPaths, retries \in 0..DefaultRetries,
          too_large \in BOOLEAN :
        sd' = SdCallStep(c, path, retries, path \in files, too_large)
    /\ UNCHANGED <<files, outside_send>>

\* lines 422-442
SdAttempt ==
    /\ sd.pc = "loop"
    /\ sd.attempt < sd.retries
    /\ \E outcome \in AttemptOutcomes : sd' = SdAttemptStep(sd, outcome)
    /\ UNCHANGED <<files, outside_send>>

\* lines 444-445: the loop is over without a successful attempt
SdGiveUp ==
    /\ sd.pc = "loop"
    /\ sd.attempt >= sd.retries
    /\ sd' = [sd EXCEPT !.pc = "done", !.result = "False"]
    /\ UNCHANGED <<files, outside_send>>

NextSend == SdFileChange \/ SdCall \/ SdAttempt \/ SdGiveUp

SpecSend == InitSend /\ [][NextSend]_vars

\* the failed attempts that another attempt follows
FollowedFailures ==
    { k \in 1..Len(sd.tries) :
        sd.tries[k] = "request_error" /\ k < sd.retries }

\* C21: send_document makes at most `retries` upload attempts, goes on only
\* after an attempt that failed, returns True at the first successful
\* attempt, has slept 2^k seconds after the failed attempt number k
\* (k = 0, 1, ...) exactly when another attempt follows it, and returns
\* False once `retries` attempts have failed.
C21_RetryWithBackoff ==
    LET n == Len(sd.tries)
    IN /\ n <= sd.retries
       /\ \A k \in 1..(n - 1) : sd.tries[k] = "request_error"
       /\ (sd.result = "True") <=> (n > 0 /\ sd.tries[n] = "ok")
       /\ sd.slept = [k \in 1..Cardinality(FollowedFailures) |-> 2 ^ (k - 1)]
       /\ (sd.pc = "done" /\ n = sd.retries
             /\ \A k \in 1..n : sd.tries[k] = "request_error")
            => sd.result = "False"

\* all three attempts of a call with the default number of retries failed
C21_Witness ==
    /\ sd.pc = "done"
    /\ sd.retries = DefaultRetries
    /\ sd.tries = <<"request_error", "request_error", "request_error">>
    /\ sd.slept = <<1, 2>>
    /\ sd.result = "False"

(***************************************************************************)
(* The working directory: two requests of two chats, each a text search    *)
(* (process_search_query), a playlist track (process_playlist) or a        *)
(* single-track link (main, download_music), with the cleanup timer and    *)
(* the /clean command.  All of them work in the one directory the process  *)
(* runs in.                                                                *)
(***************************************************************************)
outside_files ==
    <<last_update_id, ranker, psq, searched, downloads, sent, urls, titles,
      dispatch, direct, sd, pp>>

JobKinds == {"search", "playlist", "track"}

\* the chat a request is for
ChatOf == [j \in Jobs |-> IF j = "j1" THEN "c1" ELSE "c2"]

\* outtmpl '%(title).50s.%(ext)s': the mp3 a request downloads, named after
\* its song
Song == [j \in Jobs |-> IF j = "j1" THEN "a.mp3" ELSE "b.mp3"]

\* the file a download holds before FFmpegExtractAudio has made the mp3
Raw == [j \in Jobs |-> IF j = "j1" THEN "a.webm" ELSE "b.webm"]

\* ydl.download: the mp3 is there, nothing is there, or an exception, with
\* nothing written or with the unconverted file left behind
DownloadOutcomes == {"file", "nothing", "raise", "raise_raw"}

\* a request that has started and not ended
Busy(j) == jobs[j].pc \notin {"idle", "done"}

\* glob.glob("*.mp3")
Mp3Files == files \cap FileNames

InitFiles == InitRank

\* lines 521-522 (search), 205-209 (playlist track), 690 and 341 (single
\* track): the flag is set and cleanup_files empties the directory.  A
\* single track is handled by the polling loop, one at a time.
JobStart ==
    \E j \in Jobs, k \in JobKinds :
        /\ jobs[j].pc = "idle"
        /\ k = "track" => \A o \in Jobs : ~(Busy(o) /\ jobs[o].kind = "track")
        /\ jobs' = [jobs EXCEPT ![j] = [IdleJob EXCEPT !.pc = "download",
                                                       !.kind = k]]
        /\ user_processes' = DictSet(user_processes, ChatOf[j], TRUE)
        /\ files' = {}
        /\ UNCHANGED outside_files

\* lines 576-577 and 596-598, 215-216 and 236-239, 373-374 and 380-382
JobDownload ==
    \E j \in Jobs, o \in DownloadOutcomes :
        /\ jobs[j].pc = "download"
        /\ files' = IF o = "file" THEN files \cup {Song[j]}
                    ELSE IF o = "raise_raw" THEN files \cup {Raw[j]}
                    ELSE files
        /\ jobs' = [jobs EXCEPT
                ![j].made = IF o = "file" THEN {Song[j]}
                            ELSE IF o = "raise_raw" THEN {Raw[j]} ELSE {},
                ![j].pc = IF o \in {"raise", "raise_raw"} THEN "finally"
                          ELSE "glob",
                ![j].reply = IF o \in {"raise", "raise_raw"} THEN "error"
                             ELSE @]
        /\ UNCHANGED <<user_processes, outside_files>>

\* lines 579-581 and 593-594, 218-220 and 231-232, 377-378 and 719-720:
\* mp3_files[0], whichever file glob lists first
JobGlob ==
    \E j \in Jobs :
        /\ jobs[j].pc = "glob"
        /\ \/ /\ Mp3Files = {}
              /\ jobs' = [jobs EXCEPT ![j].pc = "finally",
                                      ![j].reply = "no_file"]
           \/ \E f \in Mp3Files :
                jobs' = [jobs EXCEPT ![j].pc = "send", ![j].file_path = f]
        /\ UNCHANGED <<user_processes, files, outside_files>>

\* lines 584-587, 221-225, 707-713: send_document uploads the file if it is
\* still there; the single-track branch sends nothing and removes nothing
\* when the file is gone
JobSend ==
    \E j \in Jobs :
        /\ jobs[j].pc = "send"
        /\ IF jobs[j].file_path \notin files
           THEN jobs' = [jobs EXCEPT
                    ![j].pc = IF jobs[j].kind = "track" THEN "finally"
                              ELSE "remove",
                    ![j].reply = IF jobs[j].kind = "track" THEN "no_file"
                                 ELSE "send_failed"]
           ELSE \E ok \in BOOLEAN :
                jobs' = [jobs EXCEPT
                    ![j].pc = "remove",
                    ![j].got = IF ok THEN jobs[j].file_path ELSE @,
                    ![j].reply = IF ok THEN "sent" ELSE "send_failed"]
        /\ UNCHANGED <<user_processes, files, outside_files>>

\* lines 589-592, 227-230, 715-718: os.remove(file_path)
JobRemove ==
    \E j \in Jobs :
        /\ jobs[j].pc = "remove"
        /\ files' = files \ {jobs[j].file_path}
        /\ jobs' = [jobs EXCEPT ![j].pc = "finally"]
        /\ UNCHANGED <<user_processes, outside_files>>

\* lines 603-604, 246-247, 722: the request ends
JobFinally ==
    \E j \in Jobs :
        /\ jobs[j].pc = "finally"
        /\ user_processes' = DictSet(user_processes, ChatOf[j], FALSE)
        /\ jobs' = [jobs EXCEPT ![j].pc = "done"]
        /\ UNCHANGED <<files, outside_files>>

\* lines 99-107: the cleanup thread, every 30 minutes
TimerCleanup ==
    /\ files # {}
    /\ files' = {}
    /\ UNCHANGED <<user_processes, jobs, outside_files>>

\* lines 684-686: /clean, handled by the polling loop between two updates
CleanCommand ==
    /\ files # {}
    /\ \A o \in Jobs : ~(Busy(o) /\ jobs[o].kind = "track")
    /\ files' = {}
    /\ UNCHANGED <<user_processes, jobs, outside_files>>

NextFiles ==
    \/ JobStart \/ JobDownload \/ JobGlob \/ JobSend \/ JobRemove
    \/ JobFinally \/ TimerCleanup \/ CleanCommand

SpecFiles == InitFiles /\ [][NextFiles]_vars

\* C22: every audio file created for a request is discarded when the
\* request ends: once a request is over (the reply was sent, the send failed
\* or the attempt failed), no file it downloaded is left in the working
\* directory.
C22_FilesDiscardedAtEnd ==
    \A j \in Jobs : jobs[j].pc = "done" => jobs[j].made \cap files = {}

\* C26: a worker sends to its chat a file that was downloaded for its own
\* request, never one that was downloaded for the request of the other chat.
C26_SendsOwnFile ==
    \A j \in Jobs : jobs[j].got # NoStr => jobs[j].got \in jobs[j].made

\* the files request j has downloaded and has not finished sending
InHand(j) ==
    IF jobs[j].pc \in {"glob", "send"} THEN jobs[j].made \cap files ELSE {}

\* C27: a file a request has downloaded and not yet finished sending is
\* deleted by nothing but that request: not by the cleanup timer, not by
\* /clean, not by the cleanup_files call that starts another request.
C27_OnlyOwnerDeletes ==
    [][\A j \in Jobs :
         (InHand(j) \ files') # {} => jobs'[j] # jobs[j]]_vars

=============================================================================
